---- MODULE Spec2Model ----
(***************************************************************************)
(* Monitor refresh and price-tracking engine of src/qantas-dashboard.ts:  *)
(* the Monitor Store (monitors.json), the cash request / result documents, *)
(* the alert document, the flight normalizer, the lowest-price and slot    *)
(* tracker, the full cycle, the on-demand refresh, the result poll and the *)
(* management handlers (create, edit, delete).                             *)
(*                                                                         *)
(* The engine is one Node process: a handler runs without interruption     *)
(* from one await to the next.  Every action below is one such stretch.    *)
(* The only awaits that other handlers can run across are the leg fetches  *)
(* of refreshMonitor, so a full cycle and an on-demand award refresh are   *)
(* multi-step operations holding their own copy of the store (`data`).     *)
(*                                                                         *)
(* Representation.  An optional scalar field (lastChecked, cashPending,    *)
(* cashRequestedAt) is a sequence of length 0 (absent) or 1.  An optional  *)
(* map or array field (currentCombined, knownSlots, ...) that is absent    *)
(* is the empty map / empty sequence: the code reads every one of them     *)
(* through `?? {}`, `|| {}` or `?? []`.  Dates and timestamps are          *)
(* integers (day numbers, clock readings).  The display-only fields of a   *)
(* flight (RemainingSeats, Airlines, taxes) are left out.                  *)
(***************************************************************************)
EXTENDS Integers, Sequences, FiniteSets, TLC

VARIABLES
    store,      \* monitors.json: the sequence MonitorsFile.monitors
    requests,   \* cash-requests.json
    results,    \* cash-results.json
    alerts,     \* alerts-pending.json
    now,        \* the clock read by new Date()
    nextId,     \* ids handed out so far by crypto.randomUUID()
    ops,        \* the refreshAll / on-demand refresh calls in flight
    orphans,    \* leg fetches still outstanding after their Promise.all rejected
    taken,      \* the requests the external cash checker has read and not answered
    notifier,   \* the alert batches the external notifier has read and not cleared
    out         \* what the last handler answered or logged, and the files it wrote

vars == <<store, requests, results, alerts, now, nextId, ops, orphans, taken, notifier, out>>

----------------------------------------------------------------------------
(* Bounds of the model *)

MaxTime == 2
MaxMonitors == 2
MaxAlerts == 2
MaxOrphans == 1

OpIds == {"op1", "op2"}

----------------------------------------------------------------------------
(* Optional values and maps *)

Absent == <<>>
Some(x) == <<x>>
IsSome(o) == Len(o) = 1
Get(o) == o[1]

EmptyMap == [k \in {} |-> 0]
Put(m, k, v) == [x \in (DOMAIN m) \cup {k} |-> IF x = k THEN v ELSE m[x]]
Has(m, k) == k \in DOMAIN m

Range(s) == {s[i] : i \in DOMAIN s}

----------------------------------------------------------------------------
(* Cabin labels and codes *)

CABIN_CODES == [business |-> "J", premium |-> "W", economy |-> "Y", first |-> "F"]

\* String.prototype.toUpperCase on the labels the model uses
toUpperCase(s) ==
    CASE s = "suites" -> "SUITES"
      [] s = "j" -> "J"
      [] OTHER -> s

\* CABIN_CODES[c] ?? c.toUpperCase()
CabinCode(c) == IF c \in DOMAIN CABIN_CODES THEN CABIN_CODES[c] ELSE toUpperCase(c)

\* cabins.map(c => CABIN_CODES[c] ?? c.toUpperCase())
CodesOf(cabins) == [i \in DOMAIN cabins |-> CabinCode(cabins[i])]

\* Array.prototype.sort() default order (UTF-16 code units) on the labels used
LabelRank(s) ==
    CASE s = "J" -> 1
      [] s = "business" -> 2
      [] s = "economy" -> 3
      [] s = "first" -> 4
      [] s = "j" -> 5
      [] s = "premium" -> 6
      [] s = "suites" -> 7
      [] OTHER -> 8

----------------------------------------------------------------------------
(* Stable sorting (Array.prototype.sort is stable) *)

RECURSIVE InsertKeyed(_, _)
\* the pair x = <<key, element>> placed after every pair whose key is <= its own
InsertKeyed(s, x) ==
    IF s = <<>> THEN <<x>>
    ELSE IF Head(s)[1] <= x[1] THEN <<Head(s)>> \o InsertKeyed(Tail(s), x)
    ELSE <<x>> \o s

RECURSIVE SortKeyed(_)
SortKeyed(s) ==
    IF s = <<>> THEN <<>>
    ELSE InsertKeyed(SortKeyed(SubSeq(s, 1, Len(s) - 1)), s[Len(s)])

\* the elements of a sequence of <<key, element>> pairs
Elements(s) == [i \in DOMAIN s |-> s[i][2]]

----------------------------------------------------------------------------
(* Raw values of the award-search API (JSON values read without checking)  *)
(*   [t |-> "num",   v |-> n]   the number n                               *)
(*   [t |-> "str",   v |-> n]   the string holding the decimal n           *)
(*   [t |-> "txt",   v |-> 0]   a string that is no number ("n/a")         *)
(*   [t |-> "bool",  v |-> b]   true (1) or false (0)                      *)
(*   [t |-> "undef", v |-> 0]   the field is missing                       *)

Num(n) == [t |-> "num", v |-> n]
Str(n) == [t |-> "str", v |-> n]
Txt == [t |-> "txt", v |-> 0]
Bool(b) == [t |-> "bool", v |-> IF b THEN 1 ELSE 0]
Undef == [t |-> "undef", v |-> 0]

\* parseFloat(x); NaN is given as 0, both are falsy and never used otherwise
parseFloat(x) == IF x.t \in {"num", "str"} THEN x.v ELSE 0

\* JavaScript truthiness
Truthy(x) ==
    CASE x.t = "num" -> x.v # 0
      [] x.t = "str" -> TRUE
      [] x.t = "txt" -> TRUE
      [] x.t = "bool" -> x.v = 1
      [] OTHER -> FALSE

\* x > 0 after ToNumber
GreaterThanZero(x) ==
    CASE x.t = "num" -> x.v > 0
      [] x.t = "str" -> x.v > 0
      [] x.t = "bool" -> x.v = 1
      [] OTHER -> FALSE

\* the value as a number in arithmetic (true is 1)
ToNumber(x) == x.v

\* f[`${code}${name}${sfx}`]
Field(f, code, name, sfx) ==
    IF code \in DOMAIN f.cab /\ (name \o sfx) \in DOMAIN f.cab[code]
    THEN f.cab[code][name \o sfx]
    ELSE Undef

\* parseFloat(m) || m || 0
MileageOf(m) ==
    IF parseFloat(m) # 0 THEN Num(parseFloat(m))
    ELSE IF Truthy(m) THEN m ELSE Num(0)

\* (f[...DirectMileageCost] as number) || 0
DirectMileageOf(d) == IF Truthy(d) THEN d ELSE Num(0)

\* directMileage > 0 && directMileage === mileage
IsDirectOf(directMileage, mileage) ==
    /\ GreaterThanZero(directMileage)
    /\ directMileage = mileage

\* available && mileage > 0
Emits(available, mileage) == Truthy(available) /\ GreaterThanZero(mileage)

SortByDate_Keeps(flights) == flights

\* result.sort((a, b) => a.Date.localeCompare(b.Date))
SortByDate(flights) ==
    Elements(SortKeyed([i \in DOMAIN flights |-> <<flights[i].Date, flights[i]>>]))

\* the body of the inner loop: the entries one cabin of one record yields
NormalizeCabin(f, code, available, mileage, directMileage) ==
    IF Emits(available, mileage)
    THEN <<[Date |-> f.Date,
            cabin |-> code,
            MileageCost |-> ToNumber(mileage),
            IsDirect |-> IsDirectOf(directMileage, mileage)]>>
    ELSE <<>>

RECURSIVE NormalizeCodes(_, _, _)
\* the inner loop of normalizeFlights: one raw record, the codes in order
NormalizeCodes(f, codes, sfx) ==
    IF codes = <<>> THEN <<>>
    ELSE NormalizeCabin(f, Head(codes),
                        Field(f, Head(codes), "Available", sfx),
                        MileageOf(Field(f, Head(codes), "MileageCost", sfx)),
                        DirectMileageOf(Field(f, Head(codes), "DirectMileageCost", sfx)))
         \o NormalizeCodes(f, Tail(codes), sfx)

RECURSIVE NormalizeRaw(_, _, _)
NormalizeRaw(raw, codes, sfx) ==
    IF raw = <<>> THEN <<>>
    ELSE NormalizeCodes(Head(raw), codes, sfx) \o NormalizeRaw(Tail(raw), codes, sfx)

normalizeFlights(raw, cabins, availType) ==
    SortByDate(NormalizeRaw(raw, CodesOf(cabins), IF availType = "any" THEN "Raw" ELSE ""))

----------------------------------------------------------------------------
(* Alert lines.  The text of a line is a function of these fields.         *)

\* `New outbound/return <cabin> available: <date> for <cost> pts`
SlotLine(f, dir) ==
    [kind |-> "slot", dir |-> dir, cabin |-> f.cabin, date |-> f.Date,
     rdate |-> 0, value |-> f.MileageCost, was |-> Absent]

\* `New lowest <cabin> round-trip: <combined> pts (was <prev> | first record)`
LowLine(code, rec, prev) ==
    [kind |-> "low", dir |-> "both", cabin |-> code, date |-> rec.outboundDate,
     rdate |-> rec.returnDate, value |-> rec.points,
     was |-> IF IsSome(prev) THEN Some(Get(prev).points) ELSE Absent]

\* `New lowest <cabin> cash fare: AUD $<aud> (was AUD $<prev> | first record)`
CashLine(code, price, prev) ==
    [kind |-> "cash", dir |-> "both", cabin |-> code, date |-> price.outboundDate,
     rdate |-> price.returnDate, value |-> price.aud,
     was |-> IF IsSome(prev) THEN Some(Get(prev).aud) ELSE Absent]

\* what is on disk when a document file is missing or its text is not JSON:
\* readFileSync or JSON.parse throws
Unreadable == <<[monitorId |-> 0, unreadable |-> TRUE]>>

ReadList_NoCatch(doc) == doc

\* let list = []; try { list = JSON.parse(fs.readFileSync(FILE)) } catch {}
ReadList(doc) == IF doc = Unreadable THEN <<>> ELSE doc

appendAlert_Replaces(doc, monitorId, label, messages, t) ==
    <<[monitorId |-> monitorId, monitorLabel |-> label,
       messages |-> messages, createdAt |-> t]>>

\* appendAlert(monitorId, label, messages)
appendAlert(doc, monitorId, label, messages, t) ==
    Append(ReadList(doc), [monitorId |-> monitorId, monitorLabel |-> label,
                 messages |-> messages, createdAt |-> t])

----------------------------------------------------------------------------
(* Lowest-price and slot tracker: refreshMonitor after its awaits          *)

SlotKey(f, dir) == <<f.Date, f.cabin, dir>>

RECURSIVE NewSlotFlights(_, _, _)
\* the flights of one leg whose key is not in the set built before the loops
NewSlotFlights(flights, dir, knownSlots) ==
    IF flights = <<>> THEN <<>>
    ELSE (IF SlotKey(Head(flights), dir) \notin knownSlots THEN <<Head(flights)>>
          ELSE <<>>)
         \o NewSlotFlights(Tail(flights), dir, knownSlots)

AppendNew(front, x) == IF x \in Range(front) THEN front ELSE Append(front, x)

RECURSIVE Dedup(_)
\* [...new Set(s)]: the first occurrence of every element, in order
Dedup(s) ==
    IF s = <<>> THEN <<>>
    ELSE AppendNew(Dedup(SubSeq(s, 1, Len(s) - 1)), s[Len(s)])

\* a sort by cost that puts the later of two equal-cost flights first
SortByCost_LaterFirst(flights) ==
    Elements(SortKeyed([i \in DOMAIN flights |->
                          <<flights[Len(flights) + 1 - i].MileageCost,
                            flights[Len(flights) + 1 - i]>>]))

\* .sort((a, b) => a.MileageCost - b.MileageCost)
SortByCost(flights) ==
    Elements(SortKeyed([i \in DOMAIN flights |-> <<flights[i].MileageCost, flights[i]>>]))

\* [0] of an array: undefined when it is empty
FirstOf(sorted) == IF sorted = <<>> THEN Absent ELSE Some(sorted[1])

\* the first flight of the cabin in date order, without the sort by cost
BestFlight_First(flights, code) ==
    FirstOf(SelectSeq(flights, LAMBDA f : f.cabin = code))

\* flights.filter(f => f.cabin === code).sort((a, b) => a.MileageCost - b.MileageCost)[0]
BestFlight(flights, code) ==
    FirstOf(SortByCost(SelectSeq(flights, LAMBDA f : f.cabin = code)))

\* the comparison with <= in place of <
IsNewLowest_OrEqual(prev, combined) == ~IsSome(prev) \/ combined <= Get(prev).points

\* !prev || combined < prev.points
IsNewLowest(prev, combined) == ~IsSome(prev) \/ combined < Get(prev).points

Lookup(m, k) == IF Has(m, k) THEN Some(m[k]) ELSE Absent

\* const rec: LowestRecord = {...} for the two chosen flights
CombinedRecord(bestOut, bestRet, t) ==
    [points |-> bestOut.MileageCost + bestRet.MileageCost,
     outboundDate |-> bestOut.Date,
     returnDate |-> bestRet.Date,
     seenAt |-> t,
     isDirect |-> bestOut.IsDirect /\ bestRet.IsDirect]

\* the lowest record written only when there was none
TrackRecord_FirstOnly(acc, code, rec, prev) ==
    [current |-> Put(acc.current, code, rec),
     lowest |-> IF ~IsSome(prev) THEN Put(acc.lowest, code, rec) ELSE acc.lowest,
     alerts |-> IF IsNewLowest(prev, rec.points)
                THEN Append(acc.alerts, LowLine(code, rec, prev))
                ELSE acc.alerts]

\* currentCombined[code] = rec, then the comparison with lowestCombined[code]
TrackRecord(acc, code, rec, prev) ==
    [current |-> Put(acc.current, code, rec),
     lowest |-> IF IsNewLowest(prev, rec.points) THEN Put(acc.lowest, code, rec)
                ELSE acc.lowest,
     alerts |-> IF IsNewLowest(prev, rec.points)
                THEN Append(acc.alerts, LowLine(code, rec, prev))
                ELSE acc.alerts]

\* one turn of the loop `for (const code of codes)`; acc holds
\* currentCombined, lowestCombined and alerts
TrackCode(acc, code, bestOut, bestRet, t) ==
    IF ~IsSome(bestOut) \/ ~IsSome(bestRet) THEN acc
    ELSE TrackRecord(acc, code, CombinedRecord(Get(bestOut), Get(bestRet), t),
                     Lookup(acc.lowest, code))

RECURSIVE TrackCodes(_, _, _, _, _)
TrackCodes(codes, outbound, ret, acc, t) ==
    IF codes = <<>> THEN acc
    ELSE TrackCodes(Tail(codes), outbound, ret,
                    TrackCode(acc, Head(codes), BestFlight(outbound, Head(codes)),
                              BestFlight(ret, Head(codes)), t),
                    t)

SlotKeys(flights, dir) == [i \in DOMAIN flights |-> SlotKey(flights[i], dir)]
SlotLines(flights, dir) == [i \in DOMAIN flights |-> SlotLine(flights[i], dir)]

\* the persist block storing the new slot keys in place of the known ones
Persisted_DropsKnown(monitor, outbound, ret, newSlots, acc, t) ==
    [monitor |-> [monitor EXCEPT !.lastChecked = Some(t),
                                 !.lastOutbound = outbound,
                                 !.lastReturn = ret,
                                 !.currentCombined = acc.current,
                                 !.lowestCombined = acc.lowest,
                                 !.knownSlots = newSlots],
     alerts |-> acc.alerts]

\* the `Persist updates` block and the return value
Persisted(monitor, outbound, ret, newSlots, acc, t) ==
    [monitor |-> [monitor EXCEPT !.lastChecked = Some(t),
                                 !.lastOutbound = outbound,
                                 !.lastReturn = ret,
                                 !.currentCombined = acc.current,
                                 !.lowestCombined = acc.lowest,
                                 !.knownSlots = Dedup(monitor.knownSlots) \o newSlots],
     alerts |-> acc.alerts]

\* the cabin loop started from the stored currentCombined instead of {}
TrackSlots_KeepsCurrent(monitor, outbound, ret, newOut, newRet, t) ==
    Persisted(monitor, outbound, ret,
              SlotKeys(newOut, "out") \o SlotKeys(newRet, "ret"),
              TrackCodes(CodesOf(monitor.cabins), outbound, ret,
                         [current |-> monitor.currentCombined,
                          lowest |-> monitor.lowestCombined,
                          alerts |-> SlotLines(newOut, "out") \o SlotLines(newRet, "ret")],
                         t),
              t)

\* refreshMonitor after the slot loops; newOut and newRet are the flights
\* whose key was not known
TrackSlots(monitor, outbound, ret, newOut, newRet, t) ==
    Persisted(monitor, outbound, ret,
              SlotKeys(newOut, "out") \o SlotKeys(newRet, "ret"),
              TrackCodes(CodesOf(monitor.cabins), outbound, ret,
                         [current |-> EmptyMap,
                          lowest |-> monitor.lowestCombined,
                          alerts |-> SlotLines(newOut, "out") \o SlotLines(newRet, "ret")],
                         t),
              t)

\* refreshMonitor from `const alerts: string[] = []` on, given both legs:
\* the updated monitor and the alert lines
refreshMonitor(monitor, outbound, ret, t) ==
    TrackSlots(monitor, outbound, ret,
               NewSlotFlights(outbound, "out", Range(monitor.knownSlots)),
               NewSlotFlights(ret, "ret", Range(monitor.knownSlots)),
               t)

----------------------------------------------------------------------------
(* Cash-price handshake *)

\* !monitor.cashPending
NotPending(monitor) == ~(IsSome(monitor.cashPending) /\ Get(monitor.cashPending))

\* monitor.cashPending = true; monitor.cashRequestedAt = new Date().toISOString()
MarkPending_Stamps(monitor, t) ==
    [monitor EXCEPT !.cashPending = Some(TRUE), !.cashRequestedAt = Some(t),
                    !.lastChecked = Some(t)]

MarkPending(monitor, t) ==
    [monitor EXCEPT !.cashPending = Some(TRUE), !.cashRequestedAt = Some(t)]

writeCashRequest_Appends(doc, monitor) ==
    Append(doc,
           [monitorId |-> monitor.id,
            label |-> monitor.label,
            outbound |-> monitor.outbound,
            return |-> monitor.return,
            cabins |-> monitor.cabins,
            requestedAt |-> monitor.cashRequestedAt])

writeCashRequest(doc, monitor) ==
    Append(SelectSeq(ReadList(doc), LAMBDA r : r.monitorId # monitor.id),
           [monitorId |-> monitor.id,
            label |-> monitor.label,
            outbound |-> monitor.outbound,
            return |-> monitor.return,
            cabins |-> monitor.cabins,
            requestedAt |-> monitor.cashRequestedAt])

\* data.monitors.find(m => m.id === id): its index, 0 when there is none
FindIndex(monitors, id) ==
    IF \E i \in DOMAIN monitors : monitors[i].id = id
    THEN CHOOSE i \in DOMAIN monitors :
            /\ monitors[i].id = id
            /\ \A j \in DOMAIN monitors : monitors[j].id = id => i <= j
    ELSE 0

\* prices[code] = v on an object: a known key keeps its place
PutEntry(entries, k, v) ==
    IF \E i \in DOMAIN entries : entries[i].key = k
    THEN [i \in DOMAIN entries |-> IF entries[i].key = k THEN [key |-> k, rec |-> v]
                                   ELSE entries[i]]
    ELSE Append(entries, [key |-> k, rec |-> v])

\* the prices kept under the keys of the result entry
NormalizePrices_KeepsKeys(rawPrices, prices) == rawPrices

RECURSIVE NormalizePrices(_, _)
\* for (const [k, v] of Object.entries(rawPrices)) prices[CASH_CABIN_CODES[k] ?? k.toUpperCase()] = v
NormalizePrices(rawPrices, prices) ==
    IF rawPrices = <<>> THEN prices
    ELSE NormalizePrices(Tail(rawPrices),
                         PutEntry(prices, CabinCode(Head(rawPrices).key), Head(rawPrices).rec))

\* the fare comparison with <= in place of <
IsNewLowestCash_OrEqual(prev, price) == ~IsSome(prev) \/ price.aud <= Get(prev).aud

\* !prev || price.aud < prev.aud
IsNewLowestCash(prev, price) == ~IsSome(prev) \/ price.aud < Get(prev).aud

\* one turn of `for (const [code, price] of Object.entries(prices))`; acc
\* holds currentCash, lowestCash and alerts
TrackPrice(acc, code, price, prev) ==
    [current |-> Put(acc.current, code, price),
     lowest |-> IF IsNewLowestCash(prev, price) THEN Put(acc.lowest, code, price)
                ELSE acc.lowest,
     alerts |-> IF IsNewLowestCash(prev, price)
                THEN Append(acc.alerts, CashLine(code, price, prev))
                ELSE acc.alerts]

RECURSIVE TrackCash(_, _)
TrackCash(prices, acc) ==
    IF prices = <<>> THEN acc
    ELSE TrackCash(Tail(prices),
                   TrackPrice(acc, Head(prices).key, Head(prices).rec,
                              Lookup(acc.lowest, Head(prices).key)))

CashApplied(monitor, result, acc, t) ==
    [monitor |-> [monitor EXCEPT
                    !.cashPending = Some(FALSE),
                    !.lastChecked = IF IsSome(result.checkedAt) THEN result.checkedAt
                                    ELSE Some(t),
                    !.currentCash = acc.current,
                    !.lowestCash = acc.lowest],
     alerts |-> acc.alerts]

\* the body of `for (const result of results)` for an entry that matches a
\* cash monitor: the updated monitor and the alert lines
applyCashResult(monitor, result, t) ==
    CashApplied(monitor, result,
                TrackCash(NormalizePrices(result.prices, <<>>),
                          [current |-> monitor.currentCash,
                           lowest |-> monitor.lowestCash,
                           alerts |-> <<>>]),
                t)

\* the end of that body: appendAlert when there are lines, changed = true
PollApplied(st, i, r) ==
    [st EXCEPT
       !.monitors = [st.monitors EXCEPT ![i] = r.monitor],
       !.alerts = IF r.alerts # <<>>
                  THEN appendAlert(st.alerts, r.monitor.id, r.monitor.label, r.alerts, st.t)
                  ELSE st.alerts,
       !.writes = IF r.alerts # <<>> THEN Append(st.writes, "alerts") ELSE st.writes,
       !.changed = TRUE]

\* the entry applied to the monitor found whatever its channel
PollEntry_AnySource(st, result, i) ==
    IF i = 0 THEN st
    ELSE PollApplied(st, i, applyCashResult(st.monitors[i], result, st.t))

\* one entry of the result document; i is the index of the monitor found
PollEntry(st, result, i) ==
    IF i = 0 THEN st
    ELSE IF st.monitors[i].source # "cash" THEN st
    ELSE PollApplied(st, i, applyCashResult(st.monitors[i], result, st.t))

RECURSIVE PollLoop(_, _)
\* processCashResults' loop over the result document; st holds data.monitors,
\* the alert document, `changed` and the files written
PollLoop(res, st) ==
    IF res = <<>> THEN st
    ELSE PollLoop(Tail(res),
                  PollEntry(st, Head(res), FindIndex(st.monitors, Head(res).monitorId)))

\* the state of processCashResults before its loop
PollBegin(monitors, alertDoc, t) ==
    [monitors |-> monitors, alerts |-> alertDoc, changed |-> FALSE,
     writes |-> <<>>, t |-> t]

\* `try { results = JSON.parse(...) } catch { return; }`, then the loop
processCashResults(resultDoc, monitors, alertDoc, t) ==
    IF resultDoc = Unreadable THEN PollBegin(monitors, alertDoc, t)
    ELSE PollLoop(resultDoc, PollBegin(monitors, alertDoc, t))

----------------------------------------------------------------------------
(* Management surface: validation and the core-field comparison *)

MAX_DATE_RANGE_DAYS_SERVER == 5

\* validateLegDateRange(leg): TRUE when it returns an error string.  A date
\* of 0 is a missing (or empty) dateFrom / dateTo.
RangeError(leg) ==
    IF leg.dateFrom = 0 \/ leg.dateTo = 0 THEN FALSE
    ELSE LET days == leg.dateTo - leg.dateFrom
         IN  days < 0 \/ days > MAX_DATE_RANGE_DAYS_SERVER

\* validateLegDateRange(body.outbound) ?? validateLegDateRange(body.return)
BodyRangeError(body) == RangeError(body.outbound) \/ RangeError(body.return)

\* (cabins || []).sort()
SortCabins(cabins) ==
    Elements(SortKeyed([i \in DOMAIN cabins |-> <<LabelRank(cabins[i]), cabins[i]>>]))

\* x ?? d for an optional string, "" standing for undefined
OrElse(x, d) == IF x = "" THEN d ELSE x

\* the deletes without the two cash handshake fields
resetTracking_KeepsPending(monitor) ==
    [monitor EXCEPT !.currentCombined = EmptyMap,
                    !.lowestCombined = EmptyMap,
                    !.knownSlots = <<>>,
                    !.lastOutbound = <<>>,
                    !.lastReturn = <<>>,
                    !.lastChecked = Absent,
                    !.currentCash = EmptyMap,
                    !.lowestCash = EmptyMap]

\* the ten `delete monitor.<field>` statements
resetTracking(monitor) ==
    [monitor EXCEPT !.currentCombined = EmptyMap,
                    !.lowestCombined = EmptyMap,
                    !.knownSlots = <<>>,
                    !.lastOutbound = <<>>,
                    !.lastReturn = <<>>,
                    !.lastChecked = Absent,
                    !.currentCash = EmptyMap,
                    !.lowestCash = EmptyMap,
                    !.cashPending = Absent,
                    !.cashRequestedAt = Absent]

\* the first nine disjuncts of coreChanged; when one of them is true the
\* `||` chain stops before the two in-place sorts
routeChanged(body, monitor) ==
    \/ body.outbound.origin # monitor.outbound.origin
    \/ body.outbound.destination # monitor.outbound.destination
    \/ body.outbound.dateFrom # monitor.outbound.dateFrom
    \/ body.outbound.dateTo # monitor.outbound.dateTo
    \/ body.return.origin # monitor.return.origin
    \/ body.return.destination # monitor.return.destination
    \/ body.return.dateFrom # monitor.return.dateFrom
    \/ body.return.dateTo # monitor.return.dateTo
    \/ OrElse(body.availType, "rewards") # OrElse(monitor.availType, "rewards")

\* the comparison with the channel among the compared fields
coreChanged_ComparesSource(body, monitor) ==
    \/ routeChanged(body, monitor)
    \/ SortCabins(body.cabins) # SortCabins(monitor.cabins)
    \/ OrElse(body.source, "awards") # monitor.source

coreChanged(body, monitor) ==
    \/ routeChanged(body, monitor)
    \/ SortCabins(body.cabins) # SortCabins(monitor.cabins)

\* the PUT handler from `monitor.label = body.label` to the deletes;
\* body.cabins has been sorted in place when coreChanged evaluated its last
\* disjunct
editMonitor(monitor, body) ==
    LET edited == [monitor EXCEPT !.label = body.label,
                                  !.cabins = IF routeChanged(body, monitor) THEN body.cabins
                                             ELSE SortCabins(body.cabins),
                                  !.source = OrElse(body.source, "awards"),
                                  !.availType = OrElse(body.availType, "rewards"),
                                  !.outbound = body.outbound,
                                  !.return = body.return]
    IN  IF coreChanged(body, monitor) THEN resetTracking(edited) ELSE edited

\* the monitor object built by POST /api/monitors
newMonitor(id, body, t) ==
    [id |-> id,
     label |-> body.label,
     cabins |-> body.cabins,
     source |-> OrElse(body.source, "awards"),
     availType |-> OrElse(body.availType, "rewards"),
     outbound |-> body.outbound,
     return |-> body.return,
     createdAt |-> t,
     lastChecked |-> Absent,
     currentCombined |-> EmptyMap,
     lowestCombined |-> EmptyMap,
     knownSlots |-> <<>>,
     lastOutbound |-> <<>>,
     lastReturn |-> <<>>,
     currentCash |-> EmptyMap,
     lowestCash |-> EmptyMap,
     cashPending |-> Absent,
     cashRequestedAt |-> Absent]

----------------------------------------------------------------------------
(* Inputs: request bodies, award-search responses, cash fares *)

LegOut == [origin |-> "SYD", destination |-> "BOS", dateFrom |-> 1, dateTo |-> 3]
LegRet == [origin |-> "BOS", destination |-> "SYD", dateFrom |-> 8, dateTo |-> 9]

BaseBody ==
    [label |-> "a", cabins |-> <<"business">>, source |-> "awards",
     availType |-> "rewards", outbound |-> LegOut, return |-> LegRet]

CashBody == [BaseBody EXCEPT !.source = "cash"]
LabelBody == [BaseBody EXCEPT !.label = "b"]
DatesBody == [BaseBody EXCEPT !.outbound.dateTo = 4]
RouteBody == [BaseBody EXCEPT !.return.origin = "JFK"]
AnyBody == [BaseBody EXCEPT !.availType = "any"]
CabinsBody == [BaseBody EXCEPT !.cabins = <<"premium", "business">>]
CashDatesBody == [CashBody EXCEPT !.return.dateFrom = 7]
LongBody == [BaseBody EXCEPT !.outbound.dateTo = 7]

\* bodies at and beyond the limits of validateLegDateRange: a span of exactly
\* five days, a return leg that ends before it starts, and an outbound leg
\* sent without its dateTo
MaxBody == [BaseBody EXCEPT !.outbound.dateTo = 6]
BackBody == [BaseBody EXCEPT !.return.dateTo = 7]
OpenBody == [BaseBody EXCEPT !.outbound.dateTo = 0]

\* one raw per-date record with one cabin on offer under both field variants
RawFlight(date, code, cost, direct) ==
    [Date |-> date,
     cab |-> Put(EmptyMap, code,
                 [Available |-> Bool(TRUE), MileageCost |-> Num(cost),
                  DirectMileageCost |-> Num(direct),
                  AvailableRaw |-> Bool(TRUE), MileageCostRaw |-> Num(cost),
                  DirectMileageCostRaw |-> Num(direct)])]

\* one raw per-date record with one cabin; plain and raw are the values of
\* <code>Available, <code>MileageCost and <code>DirectMileageCost under the
\* plain and under the Raw field names
RawCabin(date, code, plain, raw) ==
    [Date |-> date,
     cab |-> Put(EmptyMap, code,
                 [Available |-> plain[1], MileageCost |-> plain[2],
                  DirectMileageCost |-> plain[3],
                  AvailableRaw |-> raw[1], MileageCostRaw |-> raw[2],
                  DirectMileageCostRaw |-> raw[3]])]

NoFare == 0

----------------------------------------------------------------------------
(* Operations in flight *)

NoLegs == [out |-> "none", ret |-> "none"]
BothPending == [out |-> "pending", ret |-> "pending"]
Other(d) == IF d = "out" THEN "ret" ELSE "out"
Dirs == {"out", "ret"}

IdleOp == [kind |-> "idle", data |-> <<>>, i |-> 0, changed |-> FALSE, legs |-> NoLegs]

IsIdle(o) == ops[o].kind = "idle"


Out(op, id, status, writes) == [op |-> op, id |-> id, status |-> status, writes |-> writes]

NoChecker == [phase |-> "idle", reqs |-> <<>>]

NoNotifier == [phase |-> "idle", batches |-> <<>>]

Init ==
    /\ store = <<>>
    /\ requests = <<>>
    /\ results = <<>>
    /\ alerts = <<>>
    /\ now = 1
    /\ nextId = 1
    /\ ops = [o \in OpIds |-> IdleOp]
    /\ orphans = 0
    /\ taken = NoChecker
    /\ notifier = NoNotifier
    /\ out = Out("start", 0, "none", <<>>)

----------------------------------------------------------------------------
(* The clock *)

Tick ==
    /\ now < MaxTime
    /\ now' = now + 1
    /\ UNCHANGED <<store, requests, results, alerts, nextId, ops, orphans, taken, notifier, out>>

----------------------------------------------------------------------------
(* Management handlers: each runs from the end of readBody to its response *)

\* POST /api/monitors
Create(body) ==
    /\ nextId <= MaxMonitors
    /\ IF BodyRangeError(body)
       THEN /\ out' = Out("create", 0, "400", <<>>)
            /\ UNCHANGED <<store, nextId>>
       ELSE /\ store' = Append(store, newMonitor(nextId, body, now))
            /\ nextId' = nextId + 1
            /\ out' = Out("create", nextId, "201", <<"monitors">>)
    /\ UNCHANGED <<requests, results, alerts, now, ops, orphans, taken, notifier>>

EditAt_Upserts(id, body, i) ==
    IF BodyRangeError(body)
    THEN /\ out' = Out("edit", id, "400", <<>>)
         /\ UNCHANGED store
    ELSE IF i = 0
    THEN /\ out' = Out("edit", id, "404", <<>>)
         /\ store' = Append(store, newMonitor(id, body, now))
    ELSE /\ store' = [store EXCEPT ![i] = editMonitor(store[i], body)]
         /\ out' = Out("edit", id, "200", <<"monitors">>)

\* PUT /api/monitors/:id
EditAt(id, body, i) ==
    IF BodyRangeError(body)
    THEN /\ out' = Out("edit", id, "400", <<>>)
         /\ UNCHANGED store
    ELSE IF i = 0
    THEN /\ out' = Out("edit", id, "404", <<>>)
         /\ UNCHANGED store
    ELSE /\ store' = [store EXCEPT ![i] = editMonitor(store[i], body)]
         /\ out' = Out("edit", id, "200", <<"monitors">>)

Edit(id, body) ==
    /\ EditAt(id, body, FindIndex(store, id))
    /\ UNCHANGED <<requests, results, alerts, now, nextId, ops, orphans, taken, notifier>>

\* DELETE /api/monitors/:id
Delete(id) ==
    /\ store' = SelectSeq(store, LAMBDA m : m.id # id)
    /\ out' = Out("delete", id, "200", <<"monitors">>)
    /\ UNCHANGED <<requests, results, alerts, now, nextId, ops, orphans, taken, notifier>>

----------------------------------------------------------------------------
(* Result poll: the 30 s timer calling processCashResults *)

\* what processCashResults leaves on disk: the alert batches appended inside
\* the loop, and `if (changed) { writeMonitors(data); results = [] }`
PollWrite(st) ==
    /\ Len(st.alerts) <= MaxAlerts
    /\ alerts' = st.alerts
    /\ IF st.changed
       THEN /\ store' = st.monitors
            /\ results' = <<>>
            /\ out' = Out("poll", 0, "done", st.writes \o <<"monitors", "results">>)
       ELSE /\ UNCHANGED <<store, results>>
            /\ out' = Out("poll", 0, "done", st.writes)

Poll ==
    /\ results # <<>>
    /\ PollWrite(processCashResults(results, store, alerts, now))
    /\ UNCHANGED <<requests, now, nextId, ops, orphans, taken, notifier>>

----------------------------------------------------------------------------
(* Full cycle: refreshAll *)

\* the cash branch of refreshAll's loop for a monitor that is not pending
CycleMark(st, marked) ==
    [st EXCEPT !.data[st.i] = marked,
               !.requests = writeCashRequest(st.requests, marked),
               !.writes = Append(st.writes, "requests"),
               !.changed = TRUE,
               !.i = st.i + 1]

RECURSIVE CycleRun(_, _)
\* the loop of refreshAll from monitor st.i on, as far as it runs without
\* awaiting: it stops at the next monitor that is not a cash monitor (its two
\* leg fetches are then issued and awaited) or past the last monitor
CycleRun(st, t) ==
    IF st.i > Len(st.data) THEN st
    ELSE IF st.data[st.i].source # "cash" THEN st
    ELSE IF NotPending(st.data[st.i])
    THEN CycleRun(CycleMark(st, MarkPending(st.data[st.i], t)), t)
    ELSE CycleRun([st EXCEPT !.i = st.i + 1], t)

\* where the loop stopped: at an await, or at `if (changed) writeMonitors(data)`
CycleSettle(o, run, status, id) ==
    /\ requests' = run.requests
    /\ IF run.i > Len(run.data)
       THEN /\ ops' = [ops EXCEPT ![o] = IdleOp]
            /\ store' = IF run.changed THEN run.data ELSE store
            /\ out' = Out("cycle", id, status,
                          IF run.changed THEN Append(run.writes, "monitors")
                          ELSE run.writes)
       ELSE /\ ops' = [ops EXCEPT ![o] = [kind |-> "cycle", data |-> run.data,
                                          i |-> run.i, changed |-> run.changed,
                                          legs |-> BothPending]]
            /\ store' = store
            /\ out' = Out("cycle", id, status, run.writes)

\* refreshAll resumed at monitor i: to its next await, or to its end
CycleContinue(o, data, i, changed, status, id, writes) ==
    CycleSettle(o, CycleRun([data |-> data, i |-> i, changed |-> changed,
                             requests |-> requests, writes |-> writes], now),
                status, id)

\* the hourly timer, the start-up timer or POST /api/monitors/refresh-all
CycleStart(o) ==
    /\ IsIdle(o)
    /\ CycleContinue(o, store, 1, FALSE, "running", 0, <<>>)
    /\ UNCHANGED <<results, alerts, now, nextId, orphans, taken, notifier>>

\* one leg fetch of the awaited pair resolves while the other is outstanding
LegArrive(o, d) ==
    /\ ~IsIdle(o)
    /\ ops[o].legs[d] = "pending"
    /\ ops[o].legs[Other(d)] = "pending"
    /\ ops' = [ops EXCEPT ![o].legs[d] = "done"]
    /\ UNCHANGED <<store, requests, results, alerts, now, nextId, orphans, taken, notifier, out>>

\* fetchLeg's result for a leg of the monitor: normalizeFlights(data.data ?? [])
Fetched(monitor, raw) ==
    normalizeFlights(raw, monitor.cabins, OrElse(monitor.availType, "rewards"))

\* appendAlert called without the test of alerts.length
AlertsAfter_Always(r) ==
    appendAlert(alerts, r.monitor.id, r.monitor.label, r.alerts, now)

\* `if (alerts.length) appendAlert(...)` after refreshMonitor returned r
AlertsAfter(r) ==
    IF r.alerts # <<>>
    THEN appendAlert(alerts, r.monitor.id, r.monitor.label, r.alerts, now)
    ELSE alerts

\* the monitor a suspended call is refreshing, in the call's copy of the store
Refreshing(o) == ops[o].data[ops[o].i]

\* refreshMonitor on the call's monitor with the two raw responses
Refreshed(monitor, rawOut, rawRet) ==
    refreshMonitor(monitor, Fetched(monitor, rawOut), Fetched(monitor, rawRet), now)

\* refreshAll after `await refreshMonitor(monitor)` returned r
CycleApply(o, op, r) ==
    /\ alerts' = AlertsAfter(r)
    /\ Len(alerts') <= MaxAlerts
    /\ CycleContinue(o, [op.data EXCEPT ![op.i] = r.monitor], op.i + 1, TRUE,
                     "refreshed", r.monitor.id,
                     IF r.alerts # <<>> THEN <<"alerts">> ELSE <<>>)

\* the second leg fetch resolves: refreshMonitor runs to its end, refreshAll
\* appends the alerts and goes on with the loop
CycleMonitorDone(o, d, rawOut, rawRet) ==
    /\ ops[o].kind = "cycle"
    /\ ops[o].legs[d] = "pending"
    /\ ops[o].legs[Other(d)] = "done"
    /\ CycleApply(o, ops[o], Refreshed(Refreshing(o), rawOut, rawRet))
    /\ UNCHANGED <<results, now, nextId, orphans, taken, notifier>>

\* the failure ending the cycle: nothing after the monitor is processed
CycleMonitorFail_Aborts(o, d) ==
    /\ ops[o].kind = "cycle"
    /\ ops[o].legs[d] = "pending"
    /\ orphans' = IF ops[o].legs[Other(d)] = "pending" THEN orphans + 1 ELSE orphans
    /\ orphans' <= MaxOrphans
    /\ CycleContinue(o, ops[o].data, Len(ops[o].data) + 1, ops[o].changed,
                     "failed", Refreshing(o).id, <<>>)
    /\ UNCHANGED <<results, alerts, now, nextId, taken, notifier>>

\* a leg fetch fails (timeout, non-success status): Promise.all rejects,
\* refreshAll logs the failure and goes on with the loop
CycleMonitorFail(o, d) ==
    /\ ops[o].kind = "cycle"
    /\ ops[o].legs[d] = "pending"
    /\ orphans' = IF ops[o].legs[Other(d)] = "pending" THEN orphans + 1 ELSE orphans
    /\ orphans' <= MaxOrphans
    /\ CycleContinue(o, ops[o].data, ops[o].i + 1, ops[o].changed,
                     "failed", Refreshing(o).id, <<>>)
    /\ UNCHANGED <<results, alerts, now, nextId, taken, notifier>>

\* the leg fetch left behind by a rejected Promise.all ends; nobody reads it
OrphanEnd ==
    /\ orphans > 0
    /\ orphans' = orphans - 1
    /\ UNCHANGED <<store, requests, results, alerts, now, nextId, ops, taken, notifier, out>>

----------------------------------------------------------------------------
(* On-demand refresh: POST /api/monitors/:id/refresh *)

\* the cash branch: no fetch, the request is (re)written
RefreshCash(i, marked) ==
    /\ requests' = writeCashRequest(requests, marked)
    /\ store' = [store EXCEPT ![i] = marked]
    /\ out' = Out("refresh", marked.id, "200", <<"requests", "monitors">>)
    /\ UNCHANGED ops

\* the handler from readMonitors to its first await or its response; i is
\* the index of the monitor found
RefreshFrom(o, id, i) ==
    IF i = 0
    THEN /\ out' = Out("refresh", id, "404", <<>>)
         /\ UNCHANGED <<store, requests, ops>>
    ELSE IF store[i].source = "cash"
    THEN RefreshCash(i, MarkPending(store[i], now))
    ELSE /\ ops' = [ops EXCEPT ![o] = [kind |-> "refresh", data |-> store, i |-> i,
                                       changed |-> FALSE, legs |-> BothPending]]
         /\ out' = Out("refresh", id, "fetching", <<>>)
         /\ UNCHANGED <<store, requests>>

RefreshStart(o, id) ==
    /\ IsIdle(o)
    /\ RefreshFrom(o, id, FindIndex(store, id))
    /\ UNCHANGED <<results, alerts, now, nextId, orphans, taken, notifier>>

\* the handler after `await refreshMonitor(monitor)` returned r
RefreshApply(op, r) ==
    /\ alerts' = AlertsAfter(r)
    /\ Len(alerts') <= MaxAlerts
    /\ store' = [op.data EXCEPT ![op.i] = r.monitor]
    /\ out' = Out("refresh", r.monitor.id, "200",
                  IF r.alerts # <<>> THEN <<"alerts", "monitors">> ELSE <<"monitors">>)

\* the second leg fetch resolves: refreshMonitor runs to its end, the handler
\* appends the alerts, writes its copy of the store and answers
RefreshDone(o, d, rawOut, rawRet) ==
    /\ ops[o].kind = "refresh"
    /\ ops[o].legs[d] = "pending"
    /\ ops[o].legs[Other(d)] = "done"
    /\ RefreshApply(ops[o], Refreshed(Refreshing(o), rawOut, rawRet))
    /\ ops' = [ops EXCEPT ![o] = IdleOp]
    /\ UNCHANGED <<requests, results, now, nextId, orphans, taken, notifier>>

\* the catch stamping the monitor as checked and writing the store
RefreshFail_Stamps(o, d) ==
    /\ ops[o].kind = "refresh"
    /\ ops[o].legs[d] = "pending"
    /\ orphans' = IF ops[o].legs[Other(d)] = "pending" THEN orphans + 1 ELSE orphans
    /\ orphans' <= MaxOrphans
    /\ store' = [ops[o].data EXCEPT ![ops[o].i].lastChecked = Some(now),
                                    ![ops[o].i].lastOutbound = <<>>]
    /\ out' = Out("refresh", Refreshing(o).id, "500", <<"monitors">>)
    /\ ops' = [ops EXCEPT ![o] = IdleOp]
    /\ UNCHANGED <<requests, results, alerts, now, nextId, taken, notifier>>

\* a leg fetch fails: the handler's catch answers 500
RefreshFail(o, d) ==
    /\ ops[o].kind = "refresh"
    /\ ops[o].legs[d] = "pending"
    /\ orphans' = IF ops[o].legs[Other(d)] = "pending" THEN orphans + 1 ELSE orphans
    /\ orphans' <= MaxOrphans
    /\ out' = Out("refresh", Refreshing(o).id, "500", <<>>)
    /\ ops' = [ops EXCEPT ![o] = IdleOp]
    /\ UNCHANGED <<store, requests, results, alerts, now, nextId, taken, notifier>>

----------------------------------------------------------------------------
(* External collaborators: the cash checker and the notifier *)

\* the checker reads cash-requests.json
CheckerTake ==
    /\ taken.phase = "idle"
    /\ requests # <<>>
    /\ taken' = [phase |-> "taken", reqs |-> requests]
    /\ UNCHANGED <<store, requests, results, alerts, now, nextId, ops, orphans, notifier, out>>

\* the fare the checker reports for one request, under the request's cabin labels
CheckedPrices(req, fare, t) ==
    IF fare = NoFare THEN <<>>
    ELSE [i \in DOMAIN req.cabins |->
            [key |-> req.cabins[i],
             rec |-> [aud |-> fare, outboundDate |-> req.outbound.dateFrom,
                      returnDate |-> req.return.dateFrom, isDirect |-> FALSE,
                      seenAt |-> t]]]

\* the checker writes cash-results.json: one entry for every request it read
CheckerWrite(fare, stamped) ==
    /\ taken.phase = "taken"
    /\ results' = [i \in DOMAIN taken.reqs |->
                     [monitorId |-> taken.reqs[i].monitorId,
                      checkedAt |-> IF stamped THEN Some(now) ELSE Absent,
                      prices |-> CheckedPrices(taken.reqs[i], fare, now)]]
    /\ taken' = [taken EXCEPT !.phase = "written"]
    /\ UNCHANGED <<store, requests, alerts, now, nextId, ops, orphans, notifier, out>>

\* the checker writes cash-results.json with the fare under a key of its
\* choice, a cabin label or a cabin code
CheckerWriteAs(fare, key) ==
    /\ taken.phase = "taken"
    /\ results' = [i \in DOMAIN taken.reqs |->
                     [monitorId |-> taken.reqs[i].monitorId,
                      checkedAt |-> Some(now),
                      prices |-> <<[key |-> key,
                                    rec |-> [aud |-> fare,
                                             outboundDate |-> taken.reqs[i].outbound.dateFrom,
                                             returnDate |-> taken.reqs[i].return.dateFrom,
                                             isDirect |-> FALSE,
                                             seenAt |-> now]]>>]]
    /\ taken' = [taken EXCEPT !.phase = "written"]
    /\ UNCHANGED <<store, requests, alerts, now, nextId, ops, orphans, notifier, out>>

\* the checker clears cash-requests.json
CheckerClear ==
    /\ taken.phase = "written"
    /\ requests' = <<>>
    /\ taken' = NoChecker
    /\ UNCHANGED <<store, results, alerts, now, nextId, ops, orphans, notifier, out>>

\* a document file is removed, or left with text that is not JSON
Damage(name) ==
    /\ requests' = IF name = "requests" THEN Unreadable ELSE requests
    /\ results' = IF name = "results" THEN Unreadable ELSE results
    /\ alerts' = IF name = "alerts" THEN Unreadable ELSE alerts
    /\ UNCHANGED <<store, now, nextId, ops, orphans, taken, notifier, out>>

\* the notifier reads alerts-pending.json and finds entries to send
NotifierRead ==
    /\ notifier.phase = "idle"
    /\ alerts # <<>>
    /\ notifier' = [phase |-> "read", batches |-> alerts]
    /\ UNCHANGED <<store, requests, results, alerts, now, nextId, ops, orphans, taken, out>>

\* having sent the messages of the entries it read, the notifier resets
\* alerts-pending.json: echo '[]' > alerts-pending.json
NotifierClear ==
    /\ notifier.phase = "read"
    /\ alerts' = <<>>
    /\ notifier' = NoNotifier
    /\ UNCHANGED <<store, requests, results, now, nextId, ops, orphans, taken, out>>

----------------------------------------------------------------------------
(* Specifications.  Each one is the engine restricted to some handlers and *)
(* some inputs; every behaviour of each is a behaviour of the program.     *)
(* Only SpecNotify runs the notifier: in the others the alert document     *)
(* fills up to MaxAlerts batches, which bounds the number of refreshes     *)
(* that find news.                                                         *)

NoFlights == <<>>
OneResponse == <<RawFlight(1, "J", 2, 2)>>

\* a full cycle and on-demand refreshes of one award monitor, up to two calls
\* in flight, each holding its own copy of the store across its leg fetches
RaceResponses == {<<RawFlight(1, "J", 2, 2)>>, <<RawFlight(2, "J", 1, 0)>>}

NextRace ==
    \/ nextId = 1 /\ Create(BaseBody)
    \/ Edit(1, DatesBody)
    \/ CycleStart("op1")
    \/ \E o \in OpIds : RefreshStart(o, 1)
    \/ \E o \in OpIds, d \in Dirs : LegArrive(o, d)
    \/ \E d \in Dirs, rawOut \in RaceResponses, rawRet \in RaceResponses :
          CycleMonitorDone("op1", d, rawOut, rawRet)
    \/ \E o \in OpIds, d \in Dirs, rawOut \in RaceResponses, rawRet \in RaceResponses :
          RefreshDone(o, d, rawOut, rawRet)

SpecRace == Init /\ [][NextRace]_vars

\* one award monitor refreshed by one call at a time, with leg failures
AwardBodies == {BaseBody, DatesBody, CabinsBody}
AwardResponses ==
    {NoFlights,
     <<RawFlight(2, "J", 2, 2), RawFlight(1, "J", 3, 0)>>,
     <<RawFlight(1, "J", 1, 1), RawFlight(1, "W", 1, 0)>>}

AllIdle == \A o \in OpIds : IsIdle(o)

NextAward ==
    \/ \E body \in {BaseBody, CabinsBody} : nextId = 1 /\ Create(body)
    \/ \E body \in AwardBodies : AllIdle /\ Edit(1, body)
    \/ CycleStart("op1")
    \/ RefreshStart("op1", 1)
    \/ \E d \in Dirs : LegArrive("op1", d)
    \/ \E d \in Dirs, rawOut \in AwardResponses, rawRet \in AwardResponses :
          CycleMonitorDone("op1", d, rawOut, rawRet)
    \/ \E d \in Dirs, rawOut \in AwardResponses, rawRet \in AwardResponses :
          RefreshDone("op1", d, rawOut, rawRet)
    \/ \E d \in Dirs : CycleMonitorFail("op1", d)
    \/ \E d \in Dirs : RefreshFail("op1", d)
    \/ OrphanEnd

SpecAward == Init /\ [][NextAward]_vars

\* the cash handshake on one monitor: the clock, full cycles, on-demand
\* refreshes, edits that keep or change the dates or the source, deletion,
\* the checker and the result poll
CashBodies == {CashDatesBody, BaseBody}
CheckerOutcomes == {<<1, TRUE>>, <<2, TRUE>>, <<2, FALSE>>, <<NoFare, TRUE>>}

NextCash ==
    \/ Tick
    \/ nextId = 1 /\ Create(CashBody)
    \/ \E body \in CashBodies : AllIdle /\ Edit(1, body)
    \/ AllIdle /\ Delete(1)
    \/ Poll
    \/ CycleStart("op1")
    \/ RefreshStart("op1", 1)
    \/ \E d \in Dirs : LegArrive("op1", d)
    \/ \E d \in Dirs : CycleMonitorDone("op1", d, NoFlights, NoFlights)
    \/ \E d \in Dirs : RefreshDone("op1", d, NoFlights, NoFlights)
    \/ CheckerTake
    \/ \E w \in CheckerOutcomes : CheckerWrite(w[1], w[2])
    \/ CheckerClear

SpecCash == Init /\ [][NextCash]_vars

\* monitors switched between the award source and the cash source with their
\* dates kept (source is not one of the fields coreChanged compares, so the
\* tracking stays), refreshed by full cycles and on demand, one call at a time
NextSwitch ==
    \/ Tick
    \/ \E body \in {BaseBody, CashBody} : AllIdle /\ Create(body)
    \/ \E id \in 1..MaxMonitors, body \in {BaseBody, CashBody} : AllIdle /\ Edit(id, body)
    \/ CycleStart("op1")
    \/ \E id \in 1..MaxMonitors : RefreshStart("op1", id)
    \/ \E d \in Dirs : LegArrive("op1", d)
    \/ \E d \in Dirs : CycleMonitorDone("op1", d, OneResponse, OneResponse)
    \/ \E d \in Dirs : RefreshDone("op1", d, OneResponse, OneResponse)

SpecSwitch == Init /\ [][NextSwitch]_vars

\* full cycles only, over cash and award monitors: the hourly timer, the
\* start-up timer and POST /api/monitors/refresh-all start a cycle whether or
\* not another one is awaiting a leg fetch; no result arrives and no monitor
\* is edited
NextCycle ==
    \/ Tick
    \/ \E body \in {CashBody, BaseBody} : Create(body)
    \/ \E o \in OpIds : CycleStart(o)
    \/ \E o \in OpIds, d \in Dirs : LegArrive(o, d)
    \/ \E o \in OpIds, d \in Dirs : CycleMonitorDone(o, d, OneResponse, NoFlights)
    \/ \E o \in OpIds, d \in Dirs : CycleMonitorFail(o, d)
    \/ OrphanEnd

SpecCycle == Init /\ [][NextCycle]_vars

\* every handler on one monitor, every kind of edit, deletion, one call at a
\* time
EditBodies ==
    {BaseBody, CashBody, LabelBody, DatesBody, RouteBody, AnyBody, CabinsBody,
     [BaseBody EXCEPT !.outbound.origin = "MEL"],
     [BaseBody EXCEPT !.outbound.destination = "JFK"],
     [BaseBody EXCEPT !.outbound.dateFrom = 2],
     [BaseBody EXCEPT !.return.destination = "MEL"],
     [BaseBody EXCEPT !.return.dateFrom = 7],
     [BaseBody EXCEPT !.return.dateTo = 10],
     LongBody}

Next ==
    \/ \E body \in {BaseBody, CashBody} : nextId = 1 /\ Create(body)
    \/ \E body \in EditBodies : AllIdle /\ Edit(1, body)
    \/ AllIdle /\ Delete(1)
    \/ Poll
    \/ CycleStart("op1")
    \/ RefreshStart("op1", 1)
    \/ \E d \in Dirs : LegArrive("op1", d)
    \/ \E d \in Dirs : CycleMonitorDone("op1", d, OneResponse, OneResponse)
    \/ \E d \in Dirs : RefreshDone("op1", d, OneResponse, OneResponse)
    \/ CheckerTake
    \/ CheckerWrite(1, TRUE)
    \/ CheckerClear

Spec == Init /\ [][Next]_vars

\* the management routes on up to two monitors, with bodies inside, at and
\* beyond the date limits and with ids that name no monitor; on-demand
\* refreshes, one call at a time
FormBodies == {BaseBody, CashBody, MaxBody, LongBody, BackBody, OpenBody}
FormIds == 1..(MaxMonitors + 1)

NextForm ==
    \/ \E body \in FormBodies : AllIdle /\ Create(body)
    \/ \E id \in FormIds, body \in FormBodies : AllIdle /\ Edit(id, body)
    \/ \E id \in FormIds : AllIdle /\ Delete(id)
    \/ \E id \in FormIds : RefreshStart("op1", id)
    \/ \E d \in Dirs : LegArrive("op1", d)
    \/ \E d \in Dirs : RefreshDone("op1", d, OneResponse, NoFlights)

SpecForm == Init /\ [][NextForm]_vars

\* one monitor switched between the two sources, refreshed and polled while
\* the request, result and alert documents are at times missing or
\* unparsable; the checker answers with a falling fare
DocNames == {"requests", "results", "alerts"}

NextDamage ==
    \/ nextId = 1 /\ Create(CashBody)
    \/ \E body \in {BaseBody, CashBody} : AllIdle /\ Edit(1, body)
    \/ \E name \in DocNames : Damage(name)
    \/ Poll
    \/ CycleStart("op1")
    \/ RefreshStart("op1", 1)
    \/ \E d \in Dirs : LegArrive("op1", d)
    \/ \E d \in Dirs : CycleMonitorDone("op1", d, OneResponse, NoFlights)
    \/ \E d \in Dirs : RefreshDone("op1", d, OneResponse, NoFlights)
    \/ requests # Unreadable /\ CheckerTake
    \/ \E fare \in {1, 2} : CheckerWrite(fare, TRUE)
    \/ CheckerClear

SpecDamage == Init /\ [][NextDamage]_vars

\* one award monitor refreshed by one call at a time, with responses that
\* hold the minimum cost on two dates (the later date listed first), two
\* records for one date, and a flight on one leg only
TieResponse == <<RawFlight(2, "J", 2, 2), RawFlight(1, "J", 2, 0)>>
TwiceResponse == <<RawFlight(1, "J", 3, 3), RawFlight(1, "J", 2, 0)>>
SlotResponses == {NoFlights, TieResponse, TwiceResponse}

NextSlots ==
    \/ \E body \in {BaseBody, CabinsBody} : nextId = 1 /\ Create(body)
    \/ CycleStart("op1")
    \/ RefreshStart("op1", 1)
    \/ \E d \in Dirs : LegArrive("op1", d)
    \/ \E d \in Dirs, rawOut \in SlotResponses, rawRet \in SlotResponses :
          CycleMonitorDone("op1", d, rawOut, rawRet)
    \/ \E d \in Dirs, rawOut \in SlotResponses, rawRet \in SlotResponses :
          RefreshDone("op1", d, rawOut, rawRet)

SpecSlots == Init /\ [][NextSlots]_vars

\* an award monitor and a cash monitor: full cycles and on-demand refreshes,
\* one call at a time, while the checker answers the requests and the poll
\* timer fires, also during a cycle's leg fetches
NextHandshake ==
    \/ nextId = 1 /\ Create(BaseBody)
    \/ nextId = 2 /\ Create(CashBody)
    \/ CycleStart("op1")
    \/ \E id \in 1..MaxMonitors : RefreshStart("op1", id)
    \/ \E d \in Dirs : LegArrive("op1", d)
    \/ \E d \in Dirs : CycleMonitorDone("op1", d, NoFlights, NoFlights)
    \/ \E d \in Dirs : RefreshDone("op1", d, NoFlights, NoFlights)
    \/ Poll
    \/ CheckerTake
    \/ CheckerWrite(1, TRUE)
    \/ CheckerClear

SpecHandshake == Init /\ [][NextHandshake]_vars

\* one award monitor in either availability mode, refreshed with outbound
\* responses of one record whose availability flag, mileage cost and direct
\* mileage cost are numbers, numeric text, other text, booleans or missing
RawFlags == {Bool(TRUE), Bool(FALSE), Num(1), Undef}
RawCosts == {Num(2), Num(0), Str(2), Txt, Bool(TRUE), Undef}
RawDirects == {Num(2), Num(3), Num(0), Str(2), Bool(TRUE), Undef}
NotOffered == <<Bool(FALSE), Num(0), Num(0)>>
RawTriples ==
    {<<a, c, Num(2)>> : a \in RawFlags, c \in RawCosts}
       \cup {<<Bool(TRUE), c, d>> : c \in {Num(2), Str(2)}, d \in RawDirects}
RawResponses ==
    {<<RawCabin(1, "J", t, NotOffered)>> : t \in RawTriples}
       \cup {<<RawCabin(1, "J", NotOffered, <<Bool(TRUE), Num(2), Num(2)>>)>>}

NextRaw ==
    \/ \E body \in {BaseBody, AnyBody} : nextId = 1 /\ Create(body)
    \/ CycleStart("op1")
    \/ RefreshStart("op1", 1)
    \/ \E d \in Dirs : LegArrive("op1", d)
    \/ \E d \in Dirs, rawOut \in RawResponses :
          CycleMonitorDone("op1", d, rawOut, OneResponse)
    \/ \E d \in Dirs, rawOut \in RawResponses :
          RefreshDone("op1", d, rawOut, OneResponse)

SpecRaw == Init /\ [][NextRaw]_vars

\* one cash monitor whose results are priced under cabin labels, cabin codes
\* and labels outside the mapping
KeyedFares == {<<3, "business">>, <<2, "J">>, <<1, "j">>, <<1, "suites">>}

NextLabels ==
    \/ nextId = 1 /\ Create(CashBody)
    \/ RefreshStart("op1", 1)
    \/ CycleStart("op1")
    \/ CheckerTake
    \/ \E w \in KeyedFares : CheckerWriteAs(w[1], w[2])
    \/ CheckerClear
    \/ Poll

SpecLabels == Init /\ [][NextLabels]_vars

----------------------------------------------------------------------------
(* Claims about the Monitor Store under overlapping refreshes (SpecRace)   *)

\* the step is the response of a PUT /api/monitors/:id
EditStep == out'.op = "edit"

\* C1: for every monitor and cabin, the lowest-ever points value held in the
\* store never increases from one store state to the next, over any
\* interleaving of full cycles and on-demand refreshes, edits apart.
C1_LowestNeverIncreases ==
    [][~EditStep =>
         \A i \in DOMAIN store, j \in DOMAIN store' :
            store[i].id = store'[j].id =>
               \A code \in DOMAIN store[i].lowestCombined
                            \cap DOMAIN store'[j].lowestCombined :
                  store'[j].lowestCombined[code].points
                     <= store[i].lowestCombined[code].points]_vars

\* C4: for every monitor, the set of known-slot keys held in the store only
\* grows from one store state to the next, over any interleaving of
\* refreshes, edits apart.
C4_KnownSlotsOnlyGrow ==
    [][~EditStep =>
         \A i \in DOMAIN store, j \in DOMAIN store' :
            store[i].id = store'[j].id =>
               Range(store[i].knownSlots) \subseteq Range(store'[j].knownSlots)]_vars

----------------------------------------------------------------------------
(* Claims about the management surface (Spec)                              *)

\* the fields of a leg that the edit compares
LegDiffers(a, b) ==
    \/ a.origin # b.origin
    \/ a.destination # b.destination
    \/ a.dateFrom # b.dateFrom
    \/ a.dateTo # b.dateTo

\* the edit changes a leg, the set of cabins or the availability mode
CoreFieldsDiffer(monitor, body) ==
    \/ LegDiffers(monitor.outbound, body.outbound)
    \/ LegDiffers(monitor.return, body.return)
    \/ Range(monitor.cabins) # Range(body.cabins)
    \/ monitor.availType # OrElse(body.availType, "rewards")

\* the monitor holds no tracking field
NoTracking(monitor) ==
    /\ DOMAIN monitor.currentCombined = {}
    /\ DOMAIN monitor.lowestCombined = {}
    /\ DOMAIN monitor.currentCash = {}
    /\ DOMAIN monitor.lowestCash = {}
    /\ monitor.knownSlots = <<>>
    /\ monitor.lastOutbound = <<>>
    /\ monitor.lastReturn = <<>>
    /\ ~IsSome(monitor.lastChecked)
    /\ ~IsSome(monitor.cashPending)
    /\ ~IsSome(monitor.cashRequestedAt)

\* C2: an accepted edit of an existing monitor that changes the origin,
\* destination, dateFrom or dateTo of either leg, the set of cabins or the
\* availability mode leaves the monitor in the store with no current and no
\* lowest records (awards and cash), no known slots, no stored leg flights,
\* no lastChecked, no pending flag and no request timestamp.
C2_CoreEditClearsTracking ==
    [][\A body \in EditBodies, i \in DOMAIN store :
          (/\ Edit(store[i].id, body)
           /\ out'.status = "200"
           /\ CoreFieldsDiffer(store[i], body))
          => /\ i \in DOMAIN store'
             /\ store'[i].id = store[i].id
             /\ NoTracking(store'[i])]_vars

\* an edit has just been answered 200 and the monitor, whose refreshes had
\* left alert batches, holds no tracking field
C2_Witness ==
    /\ out.op = "edit"
    /\ out.status = "200"
    /\ store # <<>>
    /\ NoTracking(store[1])
    /\ \E k \in DOMAIN alerts : alerts[k].monitorId = store[1].id

----------------------------------------------------------------------------
(* Claims about one award refresh (SpecAward)                              *)

\* the step ends an award refresh of the stored monitor whose leg fetches
\* both succeeded: refreshMonitor returned and the store was written
RefreshedStep ==
    /\ ~IsIdle("op1")
    /\ out'.op \in {"refresh", "cycle"}
    /\ out'.status \in {"200", "refreshed"}
    /\ ops'["op1"] # ops["op1"]

\* the step ends an award refresh one of whose leg fetches failed
FailedStep ==
    /\ ~IsIdle("op1")
    /\ out'.op \in {"refresh", "cycle"}
    /\ out'.status \in {"500", "failed"}
    /\ ops'["op1"] # ops["op1"]

\* the alert batches the step appended
NewBatches == SubSeq(alerts', Len(alerts) + 1, Len(alerts'))

\* the "new lowest" lines for a cabin among the appended batches
NewLowLines(id, code, kind) ==
    {line \in UNION {Range(NewBatches[k].messages) :
                        k \in {n \in DOMAIN NewBatches : NewBatches[n].monitorId = id}} :
        line.kind = kind /\ line.cabin = code}

\* C5: in one award refresh, for each tracked cabin that yields a combined
\* cost, the lowest record is replaced and a "new lowest" line is emitted if
\* and only if there was no prior lowest record or the combined cost is
\* strictly lower than the stored one; the line names the previous value
\* exactly when one existed; an equal cost emits no line and leaves the
\* lowest record unchanged.
C5_NewLowestIffStrictlyLower ==
    [][RefreshedStep =>
         \A code \in DOMAIN store'[1].currentCombined :
            IF \/ ~Has(store[1].lowestCombined, code)
               \/ store'[1].currentCombined[code].points
                     < store[1].lowestCombined[code].points
            THEN /\ store'[1].lowestCombined[code] = store'[1].currentCombined[code]
                 /\ Cardinality(NewLowLines(store[1].id, code, "low")) = 1
                 /\ \A line \in NewLowLines(store[1].id, code, "low") :
                       /\ line.value = store'[1].currentCombined[code].points
                       /\ line.was = IF Has(store[1].lowestCombined, code)
                                     THEN Some(store[1].lowestCombined[code].points)
                                     ELSE Absent
            ELSE /\ store'[1].lowestCombined[code] = store[1].lowestCombined[code]
                 /\ NewLowLines(store[1].id, code, "low") = {}]_vars

\* a refresh has just found a combined cost equal to the stored lowest one,
\* seen on other dates, and appended no alert batch
C5_Witness ==
    /\ out.status \in {"200", "refreshed"}
    /\ out.writes = <<"monitors">>
    /\ store # <<>>
    /\ Has(store[1].currentCombined, "J")
    /\ Has(store[1].lowestCombined, "J")
    /\ store[1].currentCombined["J"].points = store[1].lowestCombined["J"].points
    /\ store[1].currentCombined["J"] # store[1].lowestCombined["J"]

\* the mileage costs of the entries of a flight list for a cabin
CostsOf(flights, code) ==
    {flights[k].MileageCost : k \in {n \in DOMAIN flights : flights[n].cabin = code}}

Minimum(S) == CHOOSE x \in S : \A y \in S : x <= y

\* C6: after an award refresh, for every tracked cabin the current combined
\* record exists if and only if both stored leg flight lists contain an entry
\* for the cabin, and its points value is then the minimum outbound cost for
\* the cabin plus the minimum return cost for the cabin.
C6_CurrentIsMinPlusMin ==
    [][RefreshedStep =>
         \A code \in Range(CodesOf(store'[1].cabins)) :
            /\ Has(store'[1].currentCombined, code)
                  <=> /\ CostsOf(store'[1].lastOutbound, code) # {}
                      /\ CostsOf(store'[1].lastReturn, code) # {}
            /\ Has(store'[1].currentCombined, code)
                  => store'[1].currentCombined[code].points
                        = Minimum(CostsOf(store'[1].lastOutbound, code))
                          + Minimum(CostsOf(store'[1].lastReturn, code))]_vars

\* a monitor tracking two cabins whose last refresh found the first cabin on
\* both legs, at several costs outbound, and the second on the return leg only
C6_Witness ==
    /\ out.status \in {"200", "refreshed"}
    /\ store # <<>>
    /\ Cardinality(CostsOf(store[1].lastOutbound, "J")) = 2
    /\ Has(store[1].currentCombined, "J")
    /\ CostsOf(store[1].lastOutbound, "W") = {}
    /\ CostsOf(store[1].lastReturn, "W") # {}
    /\ ~Has(store[1].currentCombined, "W")

\* C10: if either leg fetch of an award monitor fails, even when the other
\* leg succeeds, the refresh changes none of the monitor's fields and appends
\* no alert batch.
C10_FailedRefreshChangesNothing ==
    [][FailedStep => /\ store' = store
                     /\ alerts' = alerts]_vars

\* a refresh of a monitor that was refreshed before has just failed
C10_Witness ==
    /\ out.status \in {"500", "failed"}
    /\ store # <<>>
    /\ out.id = store[1].id
    /\ IsSome(store[1].lastChecked)
    /\ store[1].knownSlots # <<>>

----------------------------------------------------------------------------
(* Claims about the cash handshake (SpecCash, SpecCycle)                   *)

IsPendingCash(monitor) == monitor.source = "cash" /\ monitor.cashPending = Some(TRUE)

\* the entries of a document that name a monitor
EntriesFor(doc, id) == SelectSeq(doc, LAMBDA e : e.monitorId = id)

\* C3: for a cash monitor whose pending flag is already set, a refresh
\* request made by the full cycle or by the on-demand refresh is a no-op: the
\* pending flag, the request timestamp, the request document and the store
\* are left unchanged.
C3_PendingRefreshIsNoOp ==
    [][\A i \in DOMAIN store :
          (/\ IsPendingCash(store[i])
           /\ \/ CycleStart("op1")
              \/ RefreshStart("op1", store[i].id))
          => /\ store' = store
             /\ requests' = requests]_vars

\* C8: after every result poll that reads a non-empty result document the
\* result document is empty, whatever monitor ids its entries named.
C8_PollEmptiesResults ==
    [][(results # <<>> /\ Poll) => results' = <<>>]_vars

\* C7: a cash monitor marked pending, for which no result arrives and which
\* is not edited, stays pending across any number of full cycles, and all
\* that time the request document holds exactly one entry for it, whose
\* requestedAt is the timestamp of the original request.
C7_PendingStaysQueuedOnce ==
    /\ [](\A i \in DOMAIN store :
            IsPendingCash(store[i]) =>
               /\ Len(EntriesFor(requests, store[i].id)) = 1
               /\ EntriesFor(requests, store[i].id)[1].requestedAt
                     = store[i].cashRequestedAt)
    /\ [][\A i \in DOMAIN store :
            IsPendingCash(store[i]) =>
               /\ i \in DOMAIN store'
               /\ store'[i].id = store[i].id
               /\ IsPendingCash(store'[i])
               /\ store'[i].cashRequestedAt = store[i].cashRequestedAt]_vars

\* C9: when a result poll reads an entry whose monitorId is the id of a
\* stored cash monitor, after the poll the monitor's pending flag is false,
\* its lastChecked is the entry's checkedAt (the poll time when absent), its
\* current cash record for each reported cabin is the reported price, and
\* its lowest cash record for the cabin is replaced, with an alert line, if
\* and only if none existed or the reported fare is strictly lower.
C9_MatchedResultApplied ==
    [][(results # <<>> /\ Poll) =>
         \A k \in DOMAIN results, i \in DOMAIN store :
            (results[k].monitorId = store[i].id /\ store[i].source = "cash") =>
               /\ store'[i].cashPending = Some(FALSE)
               /\ store'[i].lastChecked = IF IsSome(results[k].checkedAt)
                                          THEN results[k].checkedAt
                                          ELSE Some(now)
               /\ \A p \in DOMAIN results[k].prices :
                     /\ Has(store'[i].currentCash, CabinCode(results[k].prices[p].key))
                     /\ store'[i].currentCash[CabinCode(results[k].prices[p].key)]
                           = results[k].prices[p].rec
                     /\ IF \/ ~Has(store[i].lowestCash, CabinCode(results[k].prices[p].key))
                           \/ results[k].prices[p].rec.aud
                                 < store[i].lowestCash[CabinCode(results[k].prices[p].key)].aud
                        THEN /\ store'[i].lowestCash[CabinCode(results[k].prices[p].key)]
                                   = results[k].prices[p].rec
                             /\ \E line \in NewLowLines(store[i].id,
                                                         CabinCode(results[k].prices[p].key),
                                                         "cash") :
                                   line.value = results[k].prices[p].rec.aud
                        ELSE /\ store'[i].lowestCash[CabinCode(results[k].prices[p].key)]
                                   = store[i].lowestCash[CabinCode(results[k].prices[p].key)]
                             /\ NewLowLines(store[i].id,
                                            CabinCode(results[k].prices[p].key),
                                            "cash") = {}]_vars

\* a poll has just applied a fare equal to the stored lowest one, reported
\* at a later time, and appended no alert batch
C9_Witness ==
    /\ out.op = "poll"
    /\ out.writes = <<"monitors", "results">>
    /\ store # <<>>
    /\ store[1].cashPending = Some(FALSE)
    /\ Has(store[1].currentCash, "J")
    /\ Has(store[1].lowestCash, "J")
    /\ store[1].currentCash["J"].aud = store[1].lowestCash["J"].aud
    /\ store[1].currentCash["J"].seenAt # store[1].lowestCash["J"].seenAt

----------------------------------------------------------------------------
(* Claims about one full cycle over several monitors (SpecSweep)           *)

\* one full cycle at a time over up to MaxMonitors award and cash monitors,
\* created between cycles; each award monitor's fetches succeed or fail
SweepResponses == {NoFlights, OneResponse}

NextSweep ==
    \/ \E body \in {BaseBody, CashBody} : AllIdle /\ Create(body)
    \/ CycleStart("op1")
    \/ \E d \in Dirs : LegArrive("op1", d)
    \/ \E d \in Dirs, rawOut \in SweepResponses :
          CycleMonitorDone("op1", d, rawOut, OneResponse)
    \/ \E d \in Dirs : CycleMonitorFail("op1", d)
    \/ OrphanEnd

SpecSweep == Init /\ [][NextSweep]_vars

\* the cycle's copy of the store after the step: the store itself once the
\* cycle has ended
CopyAfter == IF ops'["op1"].kind = "cycle" THEN ops'["op1"].data ELSE store'

\* the position of the cycle after the step: past the last monitor once the
\* cycle has ended
PositionAfter ==
    IF ops'["op1"].kind = "cycle" THEN ops'["op1"].i ELSE Len(ops["op1"].data) + 1

\* the step ends the leg fetches of the award monitor a cycle is awaiting
CycleMonitorStep ==
    /\ ops["op1"].kind = "cycle"
    /\ out'.op = "cycle"
    /\ out'.status \in {"refreshed", "failed"}
    /\ \/ ops'["op1"].kind = "idle"
       \/ ops'["op1"].i # ops["op1"].i

\* C11: in a full cycle, when the refresh of one award monitor fails, every
\* monitor after it is still processed in the same cycle, and the updates of
\* all monitors that were refreshed successfully, before or after the failing
\* one, are persisted when the cycle ends.
C11_FailureDoesNotAbortCycle ==
    [][CycleMonitorStep =>
         /\ Len(CopyAfter) = Len(ops["op1"].data)
         \* what the cycle did to earlier monitors is kept, up to the store
         /\ \A k \in 1..(ops["op1"].i - 1) : CopyAfter[k] = ops["op1"].data[k]
         \* the monitor awaited: updated when refreshed, untouched when failed
         /\ IF out'.status = "refreshed"
            THEN /\ CopyAfter[ops["op1"].i].lastChecked = Some(now)
                 /\ CopyAfter[ops["op1"].i].lastReturn # <<>>
            ELSE CopyAfter[ops["op1"].i] = ops["op1"].data[ops["op1"].i]
         \* the cycle goes on: every monitor up to the next await, or to the
         \* end, is a cash monitor and is pending
         /\ PositionAfter > ops["op1"].i
         /\ \A k \in (ops["op1"].i + 1)..(PositionAfter - 1) :
               IsPendingCash(CopyAfter[k])
         /\ PositionAfter <= Len(CopyAfter) => CopyAfter[PositionAfter].source # "cash"]_vars

\* a cycle has ended whose first monitor failed and whose second monitor,
\* refreshed after the failure, is stored with its update
C11_Witness ==
    /\ AllIdle
    /\ out.op = "cycle"
    /\ Len(store) = 2
    /\ store[1].source = "awards"
    /\ ~IsSome(store[1].lastChecked)
    /\ IsSome(store[2].lastChecked)
    /\ store[2].knownSlots # <<>>

----------------------------------------------------------------------------
(* Claims about overlapping writers of the Monitor Store (SpecRace)        *)

\* the slot keys of a stored flight list
KeysOf(flights, dir) == {<<flights[k].Date, flights[k].cabin, dir>> : k \in DOMAIN flights}

\* the step is the successful end of call o: its leg fetches are over and it
\* has written the store and answered
WriterEnds(o) ==
    /\ ops[o].kind # "idle"
    /\ ops'[o].kind = "idle"
    /\ out'.status \in {"200", "refreshed"}

\* C12: there are interleavings of two overlapping refreshes in which both
\* complete without error and the tracking update persisted by the one that
\* writes first is absent from the store after the other writes.  The writer
\* stores its own copy of the monitor, refreshed: the known slots it writes
\* are those of its copy and those of the flights it fetched, whatever the
\* store held, and its response is a success.
C12_WriterStoresItsOwnCopy ==
    [][\A o \in OpIds :
          WriterEnds(o) =>
             /\ Len(store') = Len(ops[o].data)
             /\ \A k \in DOMAIN store' :
                   IF k = ops[o].i
                   THEN Range(store'[k].knownSlots)
                           = Range(ops[o].data[k].knownSlots)
                             \cup KeysOf(store'[k].lastOutbound, "out")
                             \cup KeysOf(store'[k].lastReturn, "ret")
                   ELSE store'[k] = ops[o].data[k]]_vars

\* both calls have ended with a success, each left an alert batch, the monitor
\* was never edited, and a slot the first batch announced, stored by the
\* first writer, is not among the stored known slots
C12_Witness ==
    /\ AllIdle
    /\ out.status \in {"200", "refreshed"}
    /\ Len(store) = 1
    /\ store[1].outbound = LegOut
    /\ Len(alerts) = 2
    /\ \E n \in DOMAIN alerts[1].messages :
          /\ alerts[1].messages[n].kind = "slot"
          /\ <<alerts[1].messages[n].date, alerts[1].messages[n].cabin,
               alerts[1].messages[n].dir>> \notin Range(store[1].knownSlots)

----------------------------------------------------------------------------
(* Claims comparing the on-demand refresh with the cycle's step (SpecCash) *)

\* the full cycle's per-monitor step for a cash monitor, from the current
\* request document: refreshAll's loop run over that monitor alone
CycleStepFor(monitor) ==
    CycleRun([data |-> <<monitor>>, i |-> 1, changed |-> FALSE,
              requests |-> requests, writes |-> <<>>], now)

\* C13: run with no other operation in flight, the on-demand refresh of a
\* monitor (awards or cash, pending or not) leaves every other monitor
\* unchanged and brings the monitor, the request document and the alert
\* document to the state the full cycle's per-monitor step would produce from
\* the same state and the same fetch outcomes.
C13_OnDemandEqualsCycleStep ==
    [][\A i \in DOMAIN store :
          /\ (AllIdle /\ store[i].source = "cash" /\ RefreshStart("op1", store[i].id))
                => /\ store' = [store EXCEPT ![i] = CycleStepFor(store[i]).data[1]]
                   /\ requests' = CycleStepFor(store[i]).requests
                   /\ alerts' = alerts
          /\ (/\ ops["op1"].kind = "refresh"
              /\ ops["op1"].i = i
              /\ ops["op1"].data = store
              /\ \E d \in Dirs : RefreshDone("op1", d, NoFlights, NoFlights))
                => /\ store' = [store EXCEPT
                                  ![i] = Refreshed(store[i], NoFlights, NoFlights).monitor]
                   /\ requests' = requests
                   /\ alerts' = AlertsAfter(Refreshed(store[i], NoFlights, NoFlights))]_vars

----------------------------------------------------------------------------
(* Claims about the cash branch of the two refresh paths (SpecSwitch) *)

\* a step of the full cycle or of the on-demand refresh handler
RefreshStep ==
    \/ CycleStart("op1")
    \/ \E id \in 1..MaxMonitors : RefreshStart("op1", id)
    \/ \E d \in Dirs : CycleMonitorDone("op1", d, OneResponse, OneResponse)
    \/ \E d \in Dirs : RefreshDone("op1", d, OneResponse, OneResponse)

\* C14: no refresh of a cash monitor, by the full cycle or on demand, issues
\* a leg fetch or changes the monitor's award tracking fields: its only
\* effects are on the monitor's pending flag and request timestamp and on the
\* request document.
C14_CashRefreshTouchesOnlyRequest ==
    [][RefreshStep =>
          /\ \A i \in DOMAIN store :
                store[i].source = "cash"
                => /\ i \in DOMAIN store'
                   /\ store'[i] = [store[i] EXCEPT
                                      !.cashPending = store'[i].cashPending,
                                      !.cashRequestedAt = store'[i].cashRequestedAt]
          /\ ops'["op1"].kind # "idle"
                => ops'["op1"].data[ops'["op1"].i].source # "cash"
          /\ (\E i \in DOMAIN store :
                 store[i].source = "cash" /\ RefreshStart("op1", store[i].id))
                => /\ ops' = ops
                   /\ alerts' = alerts
                   /\ results' = results]_vars

\* a cash monitor that carries award tracking from its time as an award
\* monitor has been refreshed on demand
C14_Witness ==
    /\ out.op = "refresh"
    /\ out.status = "200"
    /\ \E i \in DOMAIN store :
          /\ store[i].id = out.id
          /\ IsPendingCash(store[i])
          /\ store[i].knownSlots # <<>>
          /\ store[i].lastOutbound # <<>>
          /\ IsSome(store[i].lastChecked)

----------------------------------------------------------------------------
(* Claims about the documents shared with the checker and the notifier     *)

\* C15: every engine operation (full cycle, on-demand refresh, result poll,
\* create, edit, delete) leaves the alert document's existing entries
\* unchanged and in order: the document before the operation is a prefix of
\* the document after it.
C15_AlertsOnlyAppended ==
    [][/\ Len(alerts) <= Len(alerts')
       /\ \A k \in DOMAIN alerts : alerts'[k] = alerts[k]]_vars

\* a batch has been appended behind a batch of another kind
C15_Witness ==
    /\ Len(alerts) = 2
    /\ \E n \in DOMAIN alerts[1].messages : alerts[1].messages[n].kind = "slot"
    /\ \E n \in DOMAIN alerts[2].messages : alerts[2].messages[n].kind = "cash"

\* the entries of a document that name another monitor
EntriesNotFor(doc, id) == SelectSeq(doc, LAMBDA e : e.monitorId # id)

\* where a cycle step left the loop of refreshAll, in a copy of n monitors
CycleEnd(n) == IF ops'["op1"].kind = "cycle" THEN ops'["op1"].i ELSE n + 1

\* monitor id is a cash monitor, not pending, at one of the positions
\* first..last of a cycle's copy
MarkedIn(copy, first, last, id) ==
    \E i \in DOMAIN copy :
       /\ first <= i
       /\ i <= last
       /\ copy[i].id = id
       /\ copy[i].source = "cash"
       /\ NotPending(copy[i])

\* the step wrote a request entry for monitor id
RequestWritten(id) ==
    \/ RefreshStart("op1", id) /\ out'.status = "200" /\ ops' = ops
    \/ /\ CycleStart("op1")
       /\ MarkedIn(store, 1, CycleEnd(Len(store)) - 1, id)
    \/ /\ \E d \in Dirs : CycleMonitorDone("op1", d, OneResponse, OneResponse)
       /\ MarkedIn(ops["op1"].data, ops["op1"].i + 1,
                   CycleEnd(Len(ops["op1"].data)) - 1, id)

\* C16: in every reachable state the request document holds at most one
\* entry per monitor id; writing a request for a monitor that already has an
\* entry replaces that entry and leaves the entries of other monitors
\* unchanged.
C16_OneRequestPerMonitor ==
    [][\A id \in 1..MaxMonitors :
          /\ Len(EntriesFor(requests, id)) <= 1
          /\ Len(EntriesFor(requests', id)) <= 1
          /\ RequestWritten(id)
                => /\ Len(EntriesFor(requests', id)) = 1
                   /\ EntriesFor(requests', id)[1].requestedAt = Some(now)
                   /\ \A other \in 1..MaxMonitors \ {id} :
                         ~RequestWritten(other)
                         => EntriesFor(requests', other) = EntriesFor(requests, other)
          /\ ~RequestWritten(id)
                => EntriesFor(requests', id) = EntriesFor(requests, id)]_vars

\* a request has been written for monitor 1 behind the entry of monitor 2
C16_Witness ==
    /\ out.op = "refresh"
    /\ out.id = 1
    /\ Len(requests) = 2
    /\ requests[1].monitorId = 2
    /\ requests[1].requestedAt = Some(1)
    /\ requests[2].monitorId = 1
    /\ requests[2].requestedAt = Some(2)

----------------------------------------------------------------------------
(* Claims about the management routes (SpecForm)                           *)

\* a leg with both dates, its end not before its start and its span within
\* the limit
LegInRange(leg) ==
    /\ leg.dateFrom # 0
    /\ leg.dateTo # 0
    /\ leg.dateTo >= leg.dateFrom
    /\ leg.dateTo - leg.dateFrom <= MAX_DATE_RANGE_DAYS_SERVER

BodyInRange(body) == LegInRange(body.outbound) /\ LegInRange(body.return)

\* C17: after any sequence of creates and edits every stored monitor has, on
\* both legs, an end date not before its start date and a span of at most
\* five days; a create or edit whose body violates this on either leg, or
\* omits a leg's dates, is rejected and stores nothing.
C17_StoredLegsInRange ==
    [][/\ \A i \in DOMAIN store' : BodyInRange(store'[i])
       /\ \A body \in FormBodies :
             (/\ ~BodyInRange(body)
              /\ \/ Create(body)
                 \/ \E id \in FormIds : Edit(id, body))
             => /\ out'.status = "400"
                /\ store' = store]_vars

\* the step answered with an error status and wrote nothing
Refused(statuses) ==
    /\ out'.status \in statuses
    /\ out'.writes = <<>>
    /\ store' = store
    /\ requests' = requests
    /\ alerts' = alerts
    /\ ops' = ops

\* C18: a create or edit rejected for a bad date range, and an edit or
\* on-demand refresh naming an id that is not in the store, each return an
\* explicit error response and leave the store, the request document and the
\* alert document unchanged.
C18_RejectedCallChangesNothing ==
    [][/\ \A body \in FormBodies :
             (/\ BodyRangeError(body)
              /\ \/ Create(body)
                 \/ \E id \in FormIds : Edit(id, body))
             => Refused({"400"})
       /\ \A id \in FormIds :
             (/\ FindIndex(store, id) = 0
              /\ \/ \E body \in FormBodies : Edit(id, body)
                 \/ RefreshStart("op1", id))
             => Refused({"400", "404"})]_vars

\* a call naming an unknown id has been refused while the store, the request
\* document and the alert document all had content
C18_Witness ==
    /\ out.status = "404"
    /\ store # <<>>
    /\ requests # <<>>
    /\ alerts # <<>>

----------------------------------------------------------------------------
(* Claims about missing or unparsable documents (SpecDamage)               *)

\* the step called appendAlert / writeCashRequest
Wrote(file) == \E n \in DOMAIN out'.writes : out'.writes[n] = file

\* a step of one of the three callers of appendAlert
AlertingStep ==
    \/ Poll
    \/ \E d \in Dirs : CycleMonitorDone("op1", d, OneResponse, NoFlights)
    \/ \E d \in Dirs : RefreshDone("op1", d, OneResponse, NoFlights)

\* C19: when the request, result or alert document is missing or unparsable,
\* the operation that reads it behaves as if the document were empty and
\* completes without failure: a request is still written, a poll changes
\* nothing, an alert batch is still appended.
C19_UnreadableReadAsEmpty ==
    [][/\ (/\ requests = Unreadable
           /\ store # <<>>
           /\ store[1].source = "cash"
           /\ \/ RefreshStart("op1", 1)
              \/ CycleStart("op1") /\ NotPending(store[1]))
          => /\ requests' = writeCashRequest(<<>>, MarkPending(store[1], now))
             /\ store'[1] = MarkPending(store[1], now)
             /\ Wrote("requests")
       /\ (results = Unreadable /\ Poll)
          => /\ out'.status = "done"
             /\ UNCHANGED <<store, requests, results, alerts>>
       /\ (alerts = Unreadable /\ AlertingStep /\ Wrote("alerts"))
          => /\ Len(alerts') = 1
             /\ alerts' # Unreadable
             /\ alerts'[1].messages # <<>>
             /\ alerts'[1].monitorId = 1
             /\ out'.status \in {"200", "refreshed", "done"}]_vars

\* the alert document holds nothing but a batch announcing a fare lower than
\* one announced before: the earlier batch was lost with the document, and
\* this one was appended to the unreadable document
C19_Witness ==
    /\ Len(alerts) = 1
    /\ alerts # Unreadable
    /\ \E n \in DOMAIN alerts[1].messages :
          /\ alerts[1].messages[n].kind = "cash"
          /\ IsSome(alerts[1].messages[n].was)

----------------------------------------------------------------------------
(* Claims about normalization (SpecAward)                                  *)

\* the dates of a list of flights never decrease along the list
Ascending(flights) ==
    \A k \in 1..(Len(flights) - 1) : flights[k].Date <= flights[k + 1].Date

\* the step is the end of a refresh of op1's monitor with these two responses
AppliesResponses(rawOut, rawRet) ==
    \E d \in Dirs : \/ RefreshDone("op1", d, rawOut, rawRet)
                    \/ CycleMonitorDone("op1", d, rawOut, rawRet)

----------------------------------------------------------------------------
(* Claims about the order of the store write and the alert append          *)

\* the store records what an alert line announces: the slot's key is among
\* the monitor's known slots, the low is the monitor's lowest-ever record of
\* the cabin or above it
Recorded(monitor, line) ==
    CASE line.kind = "slot" ->
            <<line.date, line.cabin, line.dir>> \in Range(monitor.knownSlots)
      [] line.kind = "low" ->
            /\ Has(monitor.lowestCombined, line.cabin)
            /\ Get(Lookup(monitor.lowestCombined, line.cabin)).points <= line.value
      [] OTHER ->
            /\ Has(monitor.lowestCash, line.cabin)
            /\ Get(Lookup(monitor.lowestCash, line.cabin)).aud <= line.value

\* C21: in every refresh or result poll that produces alert lines the
\* updated monitor is written to the store before the batch is appended to
\* the alert document, so the alert document never holds a batch announcing
\* a low or a slot that the persisted store does not yet record.
C21_AlertedIsPersisted ==
    \A b \in DOMAIN alerts :
       \E i \in DOMAIN store :
          /\ store[i].id = alerts[b].monitorId
          /\ \A n \in DOMAIN alerts[b].messages :
                Recorded(store[i], alerts[b].messages[n])

----------------------------------------------------------------------------
(* Claims about one award refresh (SpecSlots)                              *)

\* the places of the new-slot lines for a key among the appended batches
SlotLinePlaces(key) ==
    {p \in {<<k, n>> : k \in DOMAIN NewBatches, n \in 1..8} :
        /\ p[2] \in DOMAIN NewBatches[p[1]].messages
        /\ NewBatches[p[1]].messages[p[2]].kind = "slot"
        /\ <<NewBatches[p[1]].messages[p[2]].date,
             NewBatches[p[1]].messages[p[2]].cabin,
             NewBatches[p[1]].messages[p[2]].dir>> = key}

\* the keys observed in the flights the refresh fetched and stored
ObservedKeys ==
    KeysOf(store'[1].lastOutbound, "out") \cup KeysOf(store'[1].lastReturn, "ret")

\* C22: in one award refresh exactly one new-slot line is produced for each
\* distinct key date|cabin|direction observed in the fetched flights and not
\* among the monitor's known slots before the refresh, none for a key already
\* known, and afterwards the known slots are the previous set united with the
\* observed keys, each key held once.
C22_OneLinePerNewKey ==
    [][RefreshedStep =>
          /\ \A key \in ObservedKeys \ Range(store[1].knownSlots) :
                Cardinality(SlotLinePlaces(key)) = 1
          /\ \A key \in Range(store[1].knownSlots) : SlotLinePlaces(key) = {}
          /\ Range(store'[1].knownSlots) = Range(store[1].knownSlots) \cup ObservedKeys
          /\ Len(store'[1].knownSlots) = Cardinality(Range(store'[1].knownSlots))]_vars

\* the refresh found the cabin on at most one of the two legs
OneSided(monitor, code) ==
    \/ CostsOf(monitor.lastOutbound, code) = {}
    \/ CostsOf(monitor.lastReturn, code) = {}

\* C23: after a successful award refresh in which a tracked cabin has
\* availability on at most one leg, the monitor has no current combined
\* record for that cabin, even if it had one before, and its lowest-ever
\* record for that cabin, if any, is the record it had before the refresh.
C23_OneSidedCabinHasNoCurrent ==
    [][RefreshedStep =>
          \A code \in Range(CodesOf(store'[1].cabins)) :
             OneSided(store'[1], code)
             => /\ ~Has(store'[1].currentCombined, code)
                /\ Has(store'[1].lowestCombined, code)
                      <=> Has(store[1].lowestCombined, code)
                /\ Has(store[1].lowestCombined, code)
                      => store'[1].lowestCombined[code] = store[1].lowestCombined[code]]_vars

\* a monitor with a lowest-ever business record whose last refresh found
\* business on the outbound leg only
C23_Witness ==
    /\ out.status \in {"200", "refreshed"}
    /\ store # <<>>
    /\ Has(store[1].lowestCombined, "J")
    /\ CostsOf(store[1].lastOutbound, "J") # {}
    /\ CostsOf(store[1].lastReturn, "J") = {}
    /\ ~Has(store[1].currentCombined, "J")

\* the dates on which a flight list offers the cabin at its minimum cost
CheapestDates(flights, code) ==
    {flights[k].Date :
        k \in {n \in DOMAIN flights :
                  /\ flights[n].cabin = code
                  /\ flights[n].MileageCost = Minimum(CostsOf(flights, code))}}

\* C24: when several flights of one leg and cabin share the minimum mileage
\* cost, the flight chosen as cheapest for that leg is the first of them in
\* the date-sorted list, so the outbound and return dates of the combined
\* record are the earliest dates at which the minimum cost occurs.
C24_TieGoesToEarliestDate ==
    [][RefreshedStep =>
          \A code \in DOMAIN store'[1].currentCombined :
             /\ store'[1].currentCombined[code].outboundDate
                   = Minimum(CheapestDates(store'[1].lastOutbound, code))
             /\ store'[1].currentCombined[code].returnDate
                   = Minimum(CheapestDates(store'[1].lastReturn, code))]_vars

\* the last refresh found the minimum business cost on two outbound dates
\* and recorded the earlier one
C24_Witness ==
    /\ out.status \in {"200", "refreshed"}
    /\ store # <<>>
    /\ Cardinality(CheapestDates(store[1].lastOutbound, "J")) = 2
    /\ Has(store[1].currentCombined, "J")
    /\ store[1].currentCombined["J"].outboundDate = 1

----------------------------------------------------------------------------
(* Claims about the leg fetches of a full cycle (SpecSweep)                *)

\* the leg fetches in flight: those a call awaits and those left behind
OutstandingFetches(op, left) ==
    left + Cardinality({d \in Dirs : op.legs[d] = "pending"})

\* C25: within one full cycle at most two leg fetches are outstanding at any
\* time and they are the two legs of the same monitor; the fetches of the
\* next monitor are not issued until both fetches of the current monitor
\* have completed or one has failed.  Stated on the steps of a cycle that
\* starts with no fetch left behind by an earlier one.
C25_AtMostTwoFetchesOutstanding ==
    [][(/\ ops["op1"].kind = "cycle"
        /\ ops'["op1"].kind = "cycle"
        /\ orphans = 0)
       => /\ OutstandingFetches(ops'["op1"], orphans') <= 2
          /\ orphans' = 0
          /\ ops'["op1"].i # ops["op1"].i
                => \E d \in Dirs : ops["op1"].legs[d] = "pending"]_vars

----------------------------------------------------------------------------
(* Claims about alert batches (Spec)                                       *)

\* the alert document after a refresh or a result entry that produced these
\* lines for this monitor: one more batch, or the same document
WithBatch(doc, monitor, lines, t) ==
    IF lines = <<>> THEN doc
    ELSE Append(doc, [monitorId |-> monitor.id, monitorLabel |-> monitor.label,
                      messages |-> lines, createdAt |-> t])

\* the alert lines of the result entry, none when it matches no cash monitor
LinesOfResult(result) ==
    IF FindIndex(store, result.monitorId) = 0 THEN <<>>
    ELSE IF store[FindIndex(store, result.monitorId)].source # "cash" THEN <<>>
    ELSE applyCashResult(store[FindIndex(store, result.monitorId)], result, now).alerts

\* C26: a refresh of one monitor, or the handling of one result entry,
\* appends exactly one batch to the alert document when it produced at least
\* one alert line and appends nothing when it produced none; the batch
\* carries that monitor's id and label and the lines in the order they were
\* produced.
C26_OneBatchPerProducingRefresh ==
    [][/\ AppliesResponses(OneResponse, OneResponse)
          => alerts' = WithBatch(alerts, Refreshing("op1"),
                                 Refreshed(Refreshing("op1"), OneResponse, OneResponse).alerts,
                                 now)
       /\ (Poll /\ Len(results) = 1 /\ store # <<>>)
          => alerts' = WithBatch(alerts, store[1], LinesOfResult(results[1]), now)]_vars

\* a batch of a relabelled monitor with a new-slot line first and a
\* new-lowest line last
C26_Witness ==
    \E b \in DOMAIN alerts :
       /\ alerts[b].monitorId = 1
       /\ alerts[b].monitorLabel = "b"
       /\ Len(alerts[b].messages) >= 2
       /\ alerts[b].messages[1].kind = "slot"
       /\ alerts[b].messages[Len(alerts[b].messages)].kind = "low"

----------------------------------------------------------------------------
(* Claims about the cash handshake beside award refreshes (SpecHandshake)  *)

\* C27: if a result entry for a pending cash monitor is present in the result
\* document and the poll timer keeps firing, then eventually the monitor is
\* not pending in the persisted store and the entry is no longer in the
\* result document; the monitor then becomes pending again only through a
\* later refresh request.  Stated for the last part: a step that turns a
\* stored cash monitor from not pending to pending is a refresh request,
\* which writes the monitor's entry into the request document.
C27_PendingAgainOnlyByRequest ==
    [][\A i \in DOMAIN store :
          (/\ i \in DOMAIN store'
           /\ store[i].source = "cash"
           /\ store[i].cashPending = Some(FALSE)
           /\ IsPendingCash(store'[i]))
          => /\ Wrote("requests")
             /\ EntriesFor(requests', store[i].id) # <<>>
             /\ EntriesFor(requests', store[i].id)[1].requestedAt
                   = store'[i].cashRequestedAt]_vars

----------------------------------------------------------------------------
(* Claims about the normalizer's reading of raw fields (SpecRaw)           *)

\* the field-name suffix of the mode of the monitor op1 is refreshing
ModeSuffix == IF OrElse(Refreshing("op1").availType, "rewards") = "any" THEN "Raw" ELSE ""

\* a cost that is a number, or the text of a number, above zero; a missing
\* cost, a boolean and other text are none
PositiveCost(x) == x.t \in {"num", "str"} /\ x.v > 0

\* C28: the normalizer emits a flight for a raw record and a requested cabin
\* if and only if the record's availability flag for that cabin, under the
\* mode's field-name variant, is truthy and its mileage cost is strictly
\* positive; a missing or malformed cost counts as zero and yields no flight
\* rather than an error.
C28_EmitsIffAvailableAndPositive ==
    [][\A rawOut \in RawResponses :
          AppliesResponses(rawOut, OneResponse)
          => /\ store'[1].lastOutbound # <<>>
                   <=> /\ Truthy(Field(rawOut[1], "J", "Available", ModeSuffix))
                       /\ PositiveCost(Field(rawOut[1], "J", "MileageCost", ModeSuffix))
             /\ Len(store'[1].lastOutbound) <= 1]_vars

\* C29: a normalized flight is marked direct if and only if the record's
\* direct mileage cost for that cabin is present, strictly positive and equal
\* to the cabin's mileage cost; and a combined record is marked direct if and
\* only if both its chosen outbound flight and its chosen return flight are
\* marked direct.
C29_DirectIffEqualPositiveCost ==
    [][\A rawOut \in RawResponses :
          (/\ AppliesResponses(rawOut, OneResponse)
           /\ PositiveCost(Field(rawOut[1], "J", "MileageCost", ModeSuffix))
           /\ store'[1].lastOutbound # <<>>)
          => /\ store'[1].lastOutbound[1].IsDirect
                   <=> /\ PositiveCost(Field(rawOut[1], "J", "DirectMileageCost", ModeSuffix))
                       /\ Field(rawOut[1], "J", "DirectMileageCost", ModeSuffix).v
                             = Field(rawOut[1], "J", "MileageCost", ModeSuffix).v
             /\ Has(store'[1].currentCombined, "J")
             /\ store'[1].currentCombined["J"].isDirect
                   <=> /\ store'[1].lastOutbound[1].IsDirect
                       /\ store'[1].lastReturn[1].IsDirect]_vars

----------------------------------------------------------------------------
(* Claims about cabin labels in cash results (SpecLabels)                  *)

\* the code the claim gives a label
CodeOfLabel(k) ==
    CASE k = "business" -> "J"
      [] k = "premium" -> "W"
      [] k = "economy" -> "Y"
      [] k = "first" -> "F"
      [] OTHER -> toUpperCase(k)

\* the poll applies a result entry with one price to the stored cash monitor
AppliesPrice(price) ==
    /\ Poll
    /\ store # <<>>
    /\ Len(results) = 1
    /\ results[1].monitorId = store[1].id
    /\ results[1].prices = <<price>>

----------------------------------------------------------------------------
(* Claims about the records of one monitor under every interleaving        *)
(* (SpecTrack)                                                             *)

\* one monitor switched between the award source and the cash source and
\* edited with new dates, refreshed by full cycles and on demand, one call at
\* a time, while the checker answers with a rising or a falling fare and the
\* poll timer fires; edits, polls and the checker also run during a call's
\* leg fetches
TrackFares == {1, 2}
TrackResponses == {<<RawFlight(1, "J", 2, 2)>>, <<RawFlight(1, "J", 1, 0)>>}

NextTrack ==
    \/ nextId = 1 /\ Create(BaseBody)
    \/ \E body \in {BaseBody, CashBody, DatesBody} : Edit(1, body)
    \/ CycleStart("op1")
    \/ RefreshStart("op1", 1)
    \/ \E d \in Dirs : LegArrive("op1", d)
    \/ \E d \in Dirs, rawOut \in TrackResponses :
          CycleMonitorDone("op1", d, rawOut, OneResponse)
    \/ \E d \in Dirs, rawOut \in TrackResponses :
          RefreshDone("op1", d, rawOut, OneResponse)
    \/ Poll
    \/ CheckerTake
    \/ \E fare \in TrackFares : CheckerWrite(fare, TRUE)
    \/ CheckerClear

SpecTrack == Init /\ [][NextTrack]_vars

\* the lowest record of the map covers the current record under the same code
Covered(current, lowest, code, field) ==
    Has(current, code) =>
       /\ Has(lowest, code)
       /\ lowest[code][field] <= current[code][field]

----------------------------------------------------------------------------
(* Claims about the handshake with the external checker (SpecHandshake)    *)

\* the monitor has something in flight: a request entry, a request the
\* checker has read and not yet answered, or a result entry not yet polled
InFlight(id) ==
    \/ EntriesFor(requests, id) # <<>>
    \/ taken.phase = "taken" /\ EntriesFor(taken.reqs, id) # <<>>
    \/ EntriesFor(results, id) # <<>>

\* C32: in every state, under every interleaving of full cycles, on-demand
\* refreshes, polls and the checker, a cash monitor whose stored pending flag
\* is set has a request entry in the request document, or a request the
\* checker has taken and not yet answered, or an unconsumed entry in the
\* result document.
C32_PendingHasSomethingInFlight ==
    \A i \in DOMAIN store :
       IsPendingCash(store[i]) => InFlight(store[i].id)

\* no request has been issued for the monitor since it was created or last
\* reset: the reset deletes cashRequestedAt and every request stamps it
NoRequestSinceReset(monitor) ==
    monitor.source = "cash" /\ monitor.cashRequestedAt = Absent

\* C33: after a core-field edit has reset a cash monitor that had a request
\* outstanding, a result entry answering the request issued before the edit
\* is not applied: a poll leaves the monitor's current and lowest cash
\* records and its lastChecked as the reset left them as long as no request
\* has been issued after the edit.
C33_StaleResultNotApplied ==
    [][Poll =>
         \A i \in DOMAIN store :
            NoRequestSinceReset(store[i]) =>
               /\ i \in DOMAIN store'
               /\ store'[i].currentCash = store[i].currentCash
               /\ store'[i].lowestCash = store[i].lowestCash
               /\ store'[i].lastChecked = store[i].lastChecked]_vars

----------------------------------------------------------------------------
(* Claims about management requests made during a call (SpecManage)        *)

\* up to two award monitors created, edited with new dates and deleted while
\* a full cycle and an on-demand refresh are awaiting their leg fetches
NextManage ==
    \/ Create(BaseBody)
    \/ \E body \in {BaseBody, DatesBody} : Edit(1, body)
    \/ Delete(1)
    \/ CycleStart("op1")
    \/ RefreshStart("op2", 1)
    \/ \E o \in OpIds, d \in Dirs : LegArrive(o, d)
    \/ \E d \in Dirs : CycleMonitorDone("op1", d, OneResponse, OneResponse)
    \/ \E d \in Dirs : RefreshDone("op2", d, OneResponse, OneResponse)

SpecManage == Init /\ [][NextManage]_vars

IdsOf(monitors) == {monitors[i].id : i \in DOMAIN monitors}

\* what a create or an edit sets
Settings(m) == <<m.label, m.cabins, m.source, m.availType, m.outbound, m.return>>

\* the core fields
Route(m) == <<m.cabins, m.availType, m.outbound, m.return>>

\* what a core-field edit resets
Tracking(m) ==
    <<m.currentCombined, m.lowestCombined, m.knownSlots, m.lastOutbound,
      m.lastReturn, m.lastChecked, m.currentCash, m.lowestCash, m.cashPending,
      m.cashRequestedAt>>

\* the step is taken by call o, which was awaiting its leg fetches
CallStep(o) == ops[o].kind # "idle" /\ ops'[o] # ops[o]

\* C34: the steps of a full cycle or on-demand refresh, its completion
\* included, do not undo what a create, edit or delete acknowledged since
\* the call started did to the store: no monitor appears or vanishes, every
\* monitor keeps its settings, and a monitor whose core fields differ from
\* those the call read keeps its tracking state.
C34_CallKeepsManagementEffects ==
    [][\A o \in OpIds :
          CallStep(o) =>
             /\ IdsOf(store') = IdsOf(store)
             /\ \A i \in DOMAIN store, j \in DOMAIN store' :
                   store[i].id = store'[j].id =>
                      /\ Settings(store'[j]) = Settings(store[i])
                      /\ \A k \in DOMAIN ops[o].data :
                            (/\ ops[o].data[k].id = store[i].id
                             /\ Route(ops[o].data[k]) # Route(store[i]))
                            => Tracking(store'[j]) = Tracking(store[i])]_vars

----------------------------------------------------------------------------
(* Claims about the alert lines of overlapping refreshes (SpecOverlap)     *)

\* one award monitor that is never edited, so that all its refreshes belong
\* to one tracking epoch: a full cycle and on-demand refreshes, up to two
\* calls in flight; the alert document keeps every batch
NextOverlap ==
    \/ nextId = 1 /\ Create(BaseBody)
    \/ CycleStart("op1")
    \/ \E o \in OpIds : RefreshStart(o, 1)
    \/ \E o \in OpIds, d \in Dirs : LegArrive(o, d)
    \/ \E d \in Dirs, rawOut \in RaceResponses, rawRet \in RaceResponses :
          CycleMonitorDone("op1", d, rawOut, rawRet)
    \/ \E o \in OpIds, d \in Dirs, rawOut \in RaceResponses, rawRet \in RaceResponses :
          RefreshDone(o, d, rawOut, rawRet)

SpecOverlap == Init /\ [][NextOverlap]_vars

\* the "new lowest" round-trip lines of a batch
LowLinesOf(batch) == {line \in Range(batch.messages) : line.kind = "low"}

\* C35: within one tracking epoch of a monitor, each "new lowest" line
\* appended to the alert document for a cabin announces a value strictly
\* lower than every "new lowest" value announced earlier for that cabin,
\* also when two refreshes of the monitor overlap.
C35_NewLowestLinesStrictlyDecrease ==
    \A a \in DOMAIN alerts, b \in DOMAIN alerts :
       (a < b /\ alerts[a].monitorId = alerts[b].monitorId) =>
          \A early \in LowLinesOf(alerts[a]), late \in LowLinesOf(alerts[b]) :
             early.cabin = late.cabin => late.value < early.value

----------------------------------------------------------------------------
(* Claims about the hand-over of alerts to the notifier (SpecNotify)       *)

\* one award monitor refreshed by full cycles and on demand, one call at a
\* time, and edited between calls so that refreshes keep finding news, while
\* the notifier reads the alert document, sends what it read and resets the
\* document
NextNotify ==
    \/ nextId = 1 /\ Create(BaseBody)
    \/ \E body \in {BaseBody, DatesBody} : AllIdle /\ Edit(1, body)
    \/ CycleStart("op1")
    \/ RefreshStart("op1", 1)
    \/ \E d \in Dirs : LegArrive("op1", d)
    \/ \E d \in Dirs : CycleMonitorDone("op1", d, OneResponse, OneResponse)
    \/ \E d \in Dirs : RefreshDone("op1", d, OneResponse, OneResponse)
    \/ NotifierRead
    \/ NotifierClear

SpecNotify == Init /\ [][NextNotify]_vars

\* C36: every alert batch the engine appends is contained in a read of the
\* alert document by the notifier before the notifier resets the document:
\* when the notifier resets it, every batch the document holds is one the
\* notifier read, under every interleaving of the engine's appends with the
\* notifier's read and reset.
C36_ClearedBatchesWereRead ==
    [][NotifierClear =>
         \A k \in DOMAIN alerts :
            /\ k \in DOMAIN notifier.batches
            /\ notifier.batches[k] = alerts[k]]_vars

----------------------------------------------------------------------------
(* Claims about edits that keep the core fields (SpecKeep)                 *)

\* an award monitor and a cash monitor tracking two cabins, refreshed by full
\* cycles and on demand, priced by the checker and polled; between calls the
\* first monitor is edited with a new label, the other channel, or the same
\* cabins listed in the other order
KeepBodies ==
    {CabinsBody,
     [CabinsBody EXCEPT !.label = "b"],
     [CabinsBody EXCEPT !.source = "cash"],
     [CabinsBody EXCEPT !.cabins = <<"business", "premium">>]}
TwoCabinsResponse == <<RawFlight(1, "J", 1, 1), RawFlight(1, "W", 1, 0)>>

NextKeep ==
    \/ nextId = 1 /\ Create(CabinsBody)
    \/ nextId = 2 /\ Create([CabinsBody EXCEPT !.source = "cash"])
    \/ \E body \in KeepBodies : AllIdle /\ Edit(1, body)
    \/ CycleStart("op1")
    \/ \E id \in 1..MaxMonitors : RefreshStart("op1", id)
    \/ \E d \in Dirs : LegArrive("op1", d)
    \/ \E d \in Dirs : CycleMonitorDone("op1", d, TwoCabinsResponse, TwoCabinsResponse)
    \/ \E d \in Dirs : RefreshDone("op1", d, TwoCabinsResponse, TwoCabinsResponse)
    \/ CheckerTake
    \/ CheckerWrite(1, TRUE)
    \/ CheckerClear
    \/ Poll

SpecKeep == Init /\ [][NextKeep]_vars

\* the settings a request body asks for
BodySettings(body) ==
    <<body.label, body.cabins, OrElse(body.source, "awards"),
      OrElse(body.availType, "rewards"), body.outbound, body.return>>

\* the body changes the label of the monitor and nothing else
OnlyLabel(body, m) ==
    /\ body.label # m.label
    /\ BodySettings([body EXCEPT !.label = m.label]) = Settings(m)

\* the body changes the channel of the monitor and nothing else
OnlyChannel(body, m) ==
    /\ OrElse(body.source, "awards") # m.source
    /\ BodySettings([body EXCEPT !.source = m.source]) = Settings(m)

\* the body lists the cabins of the monitor in another order and changes
\* nothing else
OnlyOrder(body, m) ==
    /\ body.cabins # m.cabins
    /\ Len(body.cabins) = Len(m.cabins)
    /\ Range(body.cabins) = Range(m.cabins)
    /\ BodySettings([body EXCEPT !.cabins = m.cabins]) = Settings(m)

\* C37: an edit that changes only the label or only the channel of a
\* monitor, or only the order in which the same cabins are listed, leaves
\* every tracking field of that monitor unchanged and leaves every other
\* monitor unchanged.
C37_NonCoreEditKeepsTracking ==
    [][\A i \in DOMAIN store, body \in KeepBodies :
          (/\ Edit(store[i].id, body)
           /\ \/ OnlyLabel(body, store[i])
              \/ OnlyChannel(body, store[i])
              \/ OnlyOrder(body, store[i]))
          => /\ Len(store') = Len(store)
             /\ Tracking(store'[i]) = Tracking(store[i])
             /\ \A j \in DOMAIN store : j # i => store'[j] = store[j]]_vars

\* the last request was an edit answered 200; the first monitor, created on
\* the award channel, is on the cash channel and still holds the records,
\* slots and flights of its award refresh; the second monitor holds a cash
\* record
C37_Witness ==
    /\ out.op = "edit"
    /\ out.status = "200"
    /\ out.id = 1
    /\ Len(store) = 2
    /\ store[1].source = "cash"
    /\ Has(store[1].lowestCombined, "J")
    /\ Has(store[1].currentCombined, "W")
    /\ store[1].knownSlots # <<>>
    /\ store[1].lastOutbound # <<>>
    /\ IsSome(store[1].lastChecked)
    /\ Has(store[2].lowestCash, "J")

----------------------------------------------------------------------------
(* Claims about result entries that match no cash monitor (SpecStray)      *)

\* two cash monitors with requests outstanding; the first is switched to the
\* award channel or deleted while the checker prices the requests it read,
\* so that the result document names it next to the second one
NextStray ==
    \/ AllIdle /\ Create(CashBody)
    \/ AllIdle /\ Edit(1, BaseBody)
    \/ AllIdle /\ Delete(1)
    \/ CycleStart("op1")
    \/ \E id \in 1..MaxMonitors : RefreshStart("op1", id)
    \/ \E d \in Dirs : LegArrive("op1", d)
    \/ \E d \in Dirs : CycleMonitorDone("op1", d, NoFlights, NoFlights)
    \/ \E d \in Dirs : RefreshDone("op1", d, NoFlights, NoFlights)
    \/ CheckerTake
    \/ \E fare \in TrackFares : CheckerWrite(fare, TRUE)
    \/ CheckerClear
    \/ Poll

SpecStray == Init /\ [][NextStray]_vars

\* the result document holds an entry for the monitor, which is a cash monitor
Matched(monitor) ==
    monitor.source = "cash" /\ EntriesFor(results, monitor.id) # <<>>

\* C38: a result entry whose monitorId matches no stored monitor, or a
\* monitor whose channel is not cash, changes no monitor's fields and
\* appends no alert batch: a poll leaves every monitor that no entry matches
\* as a cash monitor as it was, keeps the monitors in place, and appends
\* batches only for monitors that an entry matches.
C38_StrayEntryChangesNothing ==
    [][Poll =>
         /\ Len(store') = Len(store)
         /\ \A i \in DOMAIN store : ~Matched(store[i]) => store'[i] = store[i]
         /\ Len(alerts') >= Len(alerts)
         /\ \A k \in DOMAIN alerts' :
               k > Len(alerts) =>
                  \E i \in DOMAIN store :
                     Matched(store[i]) /\ alerts'[k].monitorId = store[i].id]_vars

\* the last handler was a poll that wrote the store; the checker had priced
\* the requests of both monitors and has not yet cleared them; the first
\* monitor, on the award channel, is still pending and without a cash
\* record, the second has its fare
C38_Witness ==
    /\ out.op = "poll"
    /\ out.writes # <<>>
    /\ taken.phase = "written"
    /\ EntriesFor(taken.reqs, 1) # <<>>
    /\ EntriesFor(taken.reqs, 2) # <<>>
    /\ Len(store) = 2
    /\ store[1].source = "awards"
    /\ store[1].cashPending = Some(TRUE)
    /\ store[1].lowestCash = EmptyMap
    /\ Has(store[2].lowestCash, "J")

====
